---- MODULE Spec2Model ----
(***************************************************************************)
(* Model of the adaptive retrieval engine of the conversational resume     *)
(* backend (backend/app/core/vector_db.py): the query classifier           *)
(* preprocess_query, the context formatter format_document_with_metadata   *)
(* and the retrieval pipeline get_relevant_context.                        *)
(*                                                                         *)
(* Python strings are TLA+ strings; `in`, lower(), capitalize() and join() *)
(* are computed character by character.  Similarity scores and distances   *)
(* are fixed-point numbers in hundredths (0.25 is 25).                     *)
(***************************************************************************)
EXTENDS Integers, Sequences, FiniteSets, TLC

VARIABLES
    pq_in,        \* preprocess_query: the query it is applied to
    pq_out,       \* preprocess_query: (enhanced_query, query_type) returned
    fmt_doc,      \* format_document_with_metadata: the document argument
    fmt_meta,     \* format_document_with_metadata: the metadata argument
    fmt_out,      \* format_document_with_metadata: the string returned
    fmt_log,      \* the calls made: arguments as passed, string returned
    pc,           \* get_relevant_context: where the call stands
    query,        \* the query argument
    desired_k,    \* the k argument as passed
    k,            \* the local k after the query-type adjustment
    enhanced_query,
    query_type,
    query_embedding,   \* the embedding vector, by its length (0: none)
    initial_k,    \* n_results of the collection query (0: not computed)
    docs,         \* documents[0] of the query results
    dists,        \* distances[0] of the query results
    metas,        \* metadatas[0] of the query results
    filtered_results,  \* the sorted first-pass list, (formatted_doc, score)
    fallback_results,  \* the sorted fallback list
    used_fallback,     \* whether the fallback block ran
    top_results,  \* the list the context is built from
    result,       \* what the call gave its caller: a string or an exception
    calls,        \* the collaborators called so far, in order
    failure,      \* which collaborator failed in this call, and how ("none")
    error_log,    \* the logger.error entries of the call, in order
    messages,     \* call_model: state["messages"]
    conversation_summary,  \* call_model: the summary of the conversation
    context,      \* call_model: what get_context returned
    prompt,       \* call_model: the prompt built, by its context value
    response,     \* call_model: what chat_model.invoke gave
    task,         \* concurrent calls: the locals of each call
    memory,       \* the checkpointer: the messages stored for each thread_id
    requests      \* chat_invoke: where each chat request stands

fnvars == <<pq_in, pq_out, fmt_doc, fmt_meta, fmt_out, fmt_log>>

callvars == <<pc, query, desired_k, k, enhanced_query, query_type, query_embedding,
              initial_k, docs, dists, metas, filtered_results, fallback_results,
              used_fallback, top_results, result, calls, failure, error_log>>

chatvars == <<messages, conversation_summary, context, prompt, response>>

\* what the actions of one get_relevant_context call leave alone
invokevars == <<memory, requests>>

othervars == <<fnvars, chatvars, task, invokevars>>

vars == <<fnvars, callvars, chatvars, task, invokevars>>

(***************************************************************************)
(* Bounds of the model.                                                    *)
(***************************************************************************)
MaxWords == 2
MaxHits == 3
MaxRankHits == 5
MaxK == 20
MaxBlankLen == 4

(***************************************************************************)
(* Python string primitives.                                               *)
(***************************************************************************)
UpperChars == "ABCDEFGHIJKLMNOPQRSTUVWXYZ"
LowerChars == "abcdefghijklmnopqrstuvwxyz"

CharAt(s, i) == SubSeq(s, i, i)

Tail1(s) == SubSeq(s, 2, Len(s))

\* the i-th letters of the two alphabets, paired
RECURSIVE CaseMap(_, _, _)
CaseMap(from, to, i) ==
    IF i > Len(from) THEN <<>>
    ELSE (CharAt(from, i) :> CharAt(to, i)) @@ CaseMap(from, to, i + 1)

ToLower == CaseMap(UpperChars, LowerChars, 1)
ToUpper == CaseMap(LowerChars, UpperChars, 1)

\* str.lower() of one character
LowerChar(c) == IF c \in DOMAIN ToLower THEN ToLower[c] ELSE c

\* str.upper() of one character
UpperChar(c) == IF c \in DOMAIN ToUpper THEN ToUpper[c] ELSE c

\* str.lower(), by halves
RECURSIVE Lower(_)
Lower(s) ==
    IF Len(s) = 0 THEN ""
    ELSE IF Len(s) = 1 THEN LowerChar(s)
    ELSE LET h == Len(s) \div 2
         IN  Lower(SubSeq(s, 1, h)) \o Lower(SubSeq(s, h + 1, Len(s)))

\* str.capitalize(): first character upper-cased, the rest lower-cased
Capitalize(s) == IF s = "" THEN "" ELSE UpperChar(CharAt(s, 1)) \o Lower(Tail1(s))

\* Python's `p in s` on strings
Contains(s, p) ==
    \E i \in 1..(Len(s) - Len(p) + 1) : SubSeq(s, i, i + Len(p) - 1) = p

\* sep.join(parts)
RECURSIVE Join(_, _)
Join(sep, parts) ==
    IF parts = <<>> THEN ""
    ELSE IF Len(parts) = 1 THEN parts[1]
    ELSE parts[1] \o sep \o Join(sep, Tail(parts))

\* any(pattern in text for pattern in patterns)
AnyIn(patterns, text) == \E i \in 1..Len(patterns) : Contains(text, patterns[i])

\* [x for x in xs if keep(x)]
RECURSIVE SelectIn(_, _)
SelectIn(patterns, text) ==
    IF patterns = <<>> THEN <<>>
    ELSE IF Contains(text, Head(patterns))
         THEN <<Head(patterns)>> \o SelectIn(Tail(patterns), text)
         ELSE SelectIn(Tail(patterns), text)

(***************************************************************************)
(* preprocess_query: pattern lists.                                        *)
(***************************************************************************)
timeline_patterns ==
    << "when", "timeline", "how long", "duration", "period", "years",
       "worked", "joined", "left", "before", "after", "during", "dates",
       "chronology", "history", "previous", "next", "last job", "first job" >>

company_names ==
    << "enchanted rock", "entergy", "u-blox", "ublox", "occidental", "oxy",
       "clutch sports", "marine corps", "marines" >>

career_history_patterns ==
    << "career", "work history", "work experience", "job history", "employment",
       "roles", "positions", "companies", "employers", "jobs" >>

followup_patterns ==
    << "what did you do there", "how was it", "tell me more", "more details",
       "what about", "and then", "after that", "what next", "what else",
       "responsibilities", "tell me about", "what was your role" >>

technical_patterns ==
    << "skills", "technologies", "programming", "technical", "software",
       "expertise", "proficiency", "qualification", "stack", "tools",
       "machine learning", "artificial intelligence", "ai", "ml", "data",
       "cloud", "aws", "azure", "iot", "apis", "microservices", "architecture" >>

basic_info_patterns ==
    << "who", "name", "about", "introduction", "background", "summary",
       "education", "contact", "email", "phone", "location", "experience",
       "overview", "bio", "profile", "portfolio" >>

Intents == {"general", "basic_info", "technical_expertise", "career_history",
            "followup_question"}

\* (enhanced_query, query_type)
Classified(eq, qt) == [enhanced_query |-> eq, query_type |-> qt]

(***************************************************************************)
(* preprocess_query, one operator per block of the function.  Each block   *)
(* takes the (enhanced_query, query_type) the previous block left.         *)
(***************************************************************************)
\* CareerBlock with the company names matched against the q as typed
\* instead of its lower-cased form
CareerBlockCaseSensitive(q, q_lower, prev) ==
    IF AnyIn(timeline_patterns, q_lower)
    THEN Classified("timeline " \o q \o " job chronology work history dates",
                    "career_history")
    ELSE IF AnyIn(company_names, q)
    THEN LET mentioned_companies == SelectIn(company_names, q)
             company_enhancement == Join(" ", mentioned_companies)
         IN  Classified(q \o " " \o company_enhancement
                              \o " work experience job responsibilities",
                        "career_history")
    ELSE IF AnyIn(career_history_patterns, q_lower)
    THEN Classified(q \o " work history employment timeline job chronology",
                    "career_history")
    ELSE prev

\* the if / elif / elif chain: timeline, company name, career history
CareerBlock(q, q_lower, prev) ==
    IF AnyIn(timeline_patterns, q_lower)
    THEN Classified("timeline " \o q \o " job chronology work history dates",
                    "career_history")
    ELSE IF AnyIn(company_names, q_lower)
    THEN LET mentioned_companies == SelectIn(company_names, q_lower)
             company_enhancement == Join(" ", mentioned_companies)
         IN  Classified(q \o " " \o company_enhancement
                              \o " work experience job responsibilities",
                        "career_history")
    ELSE IF AnyIn(career_history_patterns, q_lower)
    THEN Classified(q \o " work history employment timeline job chronology",
                    "career_history")
    ELSE prev

\* the follow-up block appending its terms to the query as already enhanced
FollowupBlockCombining(q, q_lower, prev) ==
    IF AnyIn(followup_patterns, q_lower)
    THEN Classified(prev.enhanced_query \o " work experience role position responsibilities companies Enchanted Rock Entergy u-blox Occidental Petroleum Clutch Sports career history",
                    "followup_question")
    ELSE prev

FollowupBlock(q, q_lower, prev) ==
    IF AnyIn(followup_patterns, q_lower)
    THEN Classified(q \o " work experience role position responsibilities companies Enchanted Rock Entergy u-blox Occidental Petroleum Clutch Sports career history",
                    "followup_question")
    ELSE prev

TechnicalBlock(q, q_lower, prev) ==
    IF AnyIn(technical_patterns, q_lower)
    THEN Classified(q \o " skills technologies expertise proficiency qualifications technical",
                    "technical_expertise")
    ELSE prev

\* the basic-info block without its `query_type == "general"` test
BasicInfoBlockOverriding(q, q_lower, prev) ==
    IF AnyIn(basic_info_patterns, q_lower)
    THEN Classified(q \o " professional summary background profile overview",
                    "basic_info")
    ELSE prev

BasicInfoBlock(q, q_lower, prev) ==
    IF AnyIn(basic_info_patterns, q_lower) /\ prev.query_type = "general"
    THEN Classified(q \o " professional summary background profile overview",
                    "basic_info")
    ELSE prev

\* preprocess_query with the technical block evaluated before the follow-up block
preprocess_query_swapped(q) ==
    LET q_lower == Lower(q)
        start == Classified(q, "general")
        b1 == CareerBlock(q, q_lower, start)
        b2 == TechnicalBlock(q, q_lower, b1)
        b3 == FollowupBlock(q, q_lower, b2)
    IN  BasicInfoBlock(q, q_lower, b3)

\* Python's whitespace characters of the queries
WhitespaceChars == { " ", "\t", "\n" }

\* str.isspace(), true of no character for the empty string
IsWhitespace(s) == \A i \in 1..Len(s) : CharAt(s, i) \in WhitespaceChars

\* preprocess_query working on query.strip()
preprocess_query_stripping(q) ==
    LET text == IF IsWhitespace(q) THEN "" ELSE q
        q_lower == Lower(text)
        start == Classified(text, "general")
        b1 == CareerBlock(text, q_lower, start)
        b2 == FollowupBlock(text, q_lower, b1)
        b3 == TechnicalBlock(text, q_lower, b2)
    IN  BasicInfoBlock(text, q_lower, b3)

preprocess_query(q) ==
    LET q_lower == Lower(q)
        start == Classified(q, "general")
        b1 == CareerBlock(q, q_lower, start)
        b2 == FollowupBlock(q, q_lower, b1)
        b3 == TechnicalBlock(q, q_lower, b2)
    IN  BasicInfoBlock(q, q_lower, b3)

(***************************************************************************)
(* format_document_with_metadata.  A metadata dict is the sequence of its  *)
(* (key, value) items in insertion order, keys distinct; values are        *)
(* strings, the empty string being the falsy value.                        *)
(***************************************************************************)
\* metadata.get(key, default)
Get(metadata, key, default) ==
    IF \E i \in 1..Len(metadata) : metadata[i][1] = key
    THEN metadata[CHOOSE i \in 1..Len(metadata) : metadata[i][1] = key][2]
    ELSE default

tech_terms ==
    << "Python", "JavaScript", "TypeScript", "React", "Angular", "Vue", "Node.js",
       "SQL", "NoSQL", "MySQL", "PostgreSQL", "MongoDB", "Redis", "Azure", "AWS",
       "GCP", "Docker", "Kubernetes", "Terraform", "CI/CD", "Jenkins",
       "GitHub Actions", "REST API", "GraphQL", "Apache", "Iceberg", "Spark",
       "Kafka", "RabbitMQ", "IoT Hub", "Event Hub", "serverless" >>

used_keys == {"source", "section", "job_title", "company", "date_range", "technologies"}

\* "From {source}: {section}" / "From {source}"
SourcePart(source, section) ==
    IF source # ""
    THEN IF section # ""
         THEN << "From " \o source \o ": " \o section >>
         ELSE << "From " \o source >>
    ELSE <<>>

\* "{job_title} at {company} ({date_range})"
JobPart(job_title, company, date_range) ==
    IF job_title # "" /\ company # ""
    THEN << job_title \o " at " \o company
              \o (IF date_range # "" THEN " (" \o date_range \o ")" ELSE "") >>
    ELSE <<>>

TechnologiesPart(technologies) ==
    IF technologies # "" THEN << "Technologies used: " \o technologies >> ELSE <<>>

\* `section and "experience" in section.lower() or "career" in section.lower()`
TimelinePart(section, job_title, company, date_range) ==
    IF \/ (section # "" /\ Contains(Lower(section), "experience"))
       \/ Contains(Lower(section), "career")
    THEN LET timeline_context ==
                (IF job_title # "" THEN "Position: " \o job_title \o ". " ELSE "")
             \o (IF company # "" THEN "Company: " \o company \o ". " ELSE "")
             \o (IF date_range # "" THEN "Timeline: " \o date_range \o ". " ELSE "")
         IN  IF timeline_context # "" THEN << timeline_context >> ELSE <<>>
    ELSE <<>>

\* term.lower() of every term
RECURSIVE LowerAll(_)
LowerAll(terms) ==
    IF terms = <<>> THEN <<>> ELSE << Lower(Head(terms)) >> \o LowerAll(Tail(terms))

tech_terms_lower == LowerAll(tech_terms)

\* [term for term in tech_terms if term.lower() in document.lower()], from
\* the i-th term on
RECURSIVE DetectedFrom(_, _)
DetectedFrom(i, document_lower) ==
    IF i > Len(tech_terms) THEN <<>>
    ELSE (IF Contains(document_lower, tech_terms_lower[i])
          THEN << tech_terms[i] >> ELSE <<>>) \o DetectedFrom(i + 1, document_lower)

DetectedTechs(document) == DetectedFrom(1, Lower(document))

\* DetectedPart without the `if detected_techs:` test
DetectedPartAlways(document, technologies) ==
    IF technologies = "" /\ document # ""
    THEN << "Relevant technologies detected: "
              \o Join(", ", DetectedTechs(document)) >>
    ELSE <<>>

DetectedPart(document, technologies) ==
    IF technologies = "" /\ document # ""
    THEN LET detected_techs == DetectedTechs(document)
         IN  IF detected_techs # <<>>
             THEN << "Relevant technologies detected: " \o Join(", ", detected_techs) >>
             ELSE <<>>
    ELSE <<>>

\* the loop without its `and value` test
RECURSIVE OtherPartsAnyValue(_)
OtherPartsAnyValue(metadata) ==
    IF metadata = <<>> THEN <<>>
    ELSE LET key == Head(metadata)[1]
             value == Head(metadata)[2]
         IN  (IF key \notin used_keys
              THEN << Capitalize(key) \o ": " \o value >>
              ELSE <<>>) \o OtherPartsAnyValue(Tail(metadata))

\* the "Key: value" lines of the items not in used_keys, in dict order
RECURSIVE OtherParts(_)
OtherParts(metadata) ==
    IF metadata = <<>> THEN <<>>
    ELSE LET key == Head(metadata)[1]
             value == Head(metadata)[2]
         IN  (IF key \notin used_keys /\ value # ""
              THEN << Capitalize(key) \o ": " \o value >>
              ELSE <<>>) \o OtherParts(Tail(metadata))

\* formatted_parts with the document text appended first
FormattedPartsDocumentFirst(document, metadata) ==
    LET source == Get(metadata, "source", "")
        section == Get(metadata, "section", "")
        job_title == Get(metadata, "job_title", "")
        company == Get(metadata, "company", "")
        date_range == Get(metadata, "date_range", "")
        technologies == Get(metadata, "technologies", "")
    IN  << document >>
        \o SourcePart(source, section)
        \o JobPart(job_title, company, date_range)
        \o TechnologiesPart(technologies)
        \o TimelinePart(section, job_title, company, date_range)
        \o DetectedPart(document, technologies)
        \o OtherParts(metadata)

\* the list formatted_parts at the return statement
FormattedParts(document, metadata) ==
    LET source == Get(metadata, "source", "")
        section == Get(metadata, "section", "")
        job_title == Get(metadata, "job_title", "")
        company == Get(metadata, "company", "")
        date_range == Get(metadata, "date_range", "")
        technologies == Get(metadata, "technologies", "")
    IN  SourcePart(source, section)
        \o JobPart(job_title, company, date_range)
        \o TechnologiesPart(technologies)
        \o TimelinePart(section, job_title, company, date_range)
        \o DetectedPart(document, technologies)
        \o << document >>
        \o OtherParts(metadata)

format_document_with_metadata(document, metadata) ==
    Join("\n\n", FormattedParts(document, metadata))

(***************************************************************************)
(* Documents and metadata the formatter is applied to.                     *)
(***************************************************************************)
Documents ==
    { "", "Led a team of five", "Built APIs with Python on AWS",
      "using python daily", "Grew revenue" }

\* one optional item: absent, or the key with one of the values
Item(key, values) == {<<>>} \cup { << <<key, v>> >> : v \in values }

Metadatas ==
    { a \o b \o c \o d \o e \o f \o g :
        a \in Item("source", {"resume.md"}),
        b \in Item("section", {"Work Experience", "Skills", "Career Summary"}),
        c \in Item("job_title", {"Engineer"}),
        d \in Item("company", {"Acme"}),
        e \in Item("date_range", {"2020-2022"}),
        f \in Item("technologies", {"Python, AWS", ""}),
        g \in { <<>>,
                << <<"job_location", "Houston">> >>,
                << <<"job_location", "Houston">>, <<"header1", "Resume">> >>,
                << <<"header1", "Resume">>, <<"job_location", "Houston">> >>,
                << <<"chunk_id", "">> >> } }

NotFormatted == [called |-> FALSE, value |-> ""]

(***************************************************************************)
(* get_relevant_context: the straight-line pieces of the function.         *)
(***************************************************************************)
Max(a, b) == IF a >= b THEN a ELSE b
Min(a, b) == IF a <= b THEN a ELSE b

\* the k argument used as passed
AdjustKWithoutFloor(qt, kk) == kk

\* k = max(k, floor of the query type)
AdjustK(qt, kk) ==
    IF qt = "basic_info" THEN Max(kk, 7)
    ELSE IF qt = "technical_expertise" THEN Max(kk, 5)
    ELSE IF qt = "career_history" THEN Max(kk, 6)
    ELSE IF qt = "followup_question" THEN Max(kk, 8)
    ELSE Max(kk, 4)

\* initial_k = min(k * 2, 12)
InitialK(kk) == Min(kk * 2, 12)

\* min_similarity of the query type, in hundredths
MinSimilarity(qt) ==
    IF qt = "basic_info" THEN 20
    ELSE IF qt = "technical_expertise" THEN 25
    ELSE IF qt = "career_history" THEN 20
    ELSE IF qt = "followup_question" THEN 15
    ELSE 15

floor_threshold == 10

\* the distance itself taken as the score of hit i
ScoreIsDistance(ds, i) == IF i <= Len(ds) THEN ds[i] ELSE 0

\* similarity_scores[i] if i < len(similarity_scores) else 0, with
\* similarity_scores = [1 - dist for dist in dists]
ScoreOf(ds, i) == IF i <= Len(ds) THEN 100 - ds[i] ELSE 0

\* a metadata item of the results: a dict, or something that is no dict (None)
Dict(items) == [is_dict |-> TRUE, items |-> items]
NoDict == [is_dict |-> FALSE, items |-> <<>>]

\* meta = {}; if i < len(metas) and isinstance(metas[i], dict): meta = metas[i]
MetaOf(ms, i) == IF i <= Len(ms) /\ ms[i].is_dict THEN ms[i].items ELSE <<>>

\* the loop skipping every hit whose metadata item is no dict
RECURSIVE HitsWithDictAtOrAbove(_, _, _, _, _)
HitsWithDictAtOrAbove(ds_docs, ds, ms, threshold, i) ==
    IF i > Len(ds_docs) THEN <<>>
    ELSE (IF ScoreOf(ds, i) >= threshold /\ ~(i <= Len(ms) /\ ~ms[i].is_dict)
          THEN << << format_document_with_metadata(ds_docs[i], MetaOf(ms, i)),
                     ScoreOf(ds, i) >> >>
          ELSE <<>>) \o HitsWithDictAtOrAbove(ds_docs, ds, ms, threshold, i + 1)

\* the loop over range(len(docs)) from index i: the (formatted_doc, score) of
\* every hit whose score is >= threshold, in index order
RECURSIVE HitsAtOrAbove(_, _, _, _, _)
HitsAtOrAbove(ds_docs, ds, ms, threshold, i) ==
    IF i > Len(ds_docs) THEN <<>>
    ELSE (IF ScoreOf(ds, i) >= threshold
          THEN << << format_document_with_metadata(ds_docs[i], MetaOf(ms, i)),
                     ScoreOf(ds, i) >> >>
          ELSE <<>>) \o HitsAtOrAbove(ds_docs, ds, ms, threshold, i + 1)

\* the same loop with `score > threshold`
RECURSIVE HitsAbove(_, _, _, _, _)
HitsAbove(ds_docs, ds, ms, threshold, i) ==
    IF i > Len(ds_docs) THEN <<>>
    ELSE (IF ScoreOf(ds, i) > threshold
          THEN << << format_document_with_metadata(ds_docs[i], MetaOf(ms, i)),
                     ScoreOf(ds, i) >> >>
          ELSE <<>>) \o HitsAbove(ds_docs, ds, ms, threshold, i + 1)

\* list.sort(key=lambda x: x[1], reverse=True): stable, highest score first
RECURSIVE InsertByScore(_, _)
InsertByScore(sorted, x) ==
    IF sorted = <<>> THEN << x >>
    ELSE IF Head(sorted)[2] >= x[2]
         THEN << Head(sorted) >> \o InsertByScore(Tail(sorted), x)
         ELSE << x >> \o sorted

RECURSIVE SortByScoreFrom(_, _)
SortByScoreFrom(sorted, rest) ==
    IF rest = <<>> THEN sorted
    ELSE SortByScoreFrom(InsertByScore(sorted, Head(rest)), Tail(rest))

\* the list left in index order
NotSorted(xs) == xs

SortByScore(xs) == SortByScoreFrom(<<>>, xs)

\* xs[:n]
Take(xs, n) == SubSeq(xs, 1, Min(n, Len(xs)))

\* the first pass: filtered_results after its sort
PrimaryFilterStrict(ds_docs, ds, ms, qt) ==
    SortByScore(HitsAbove(ds_docs, ds, ms, MinSimilarity(qt), 1))

PrimaryFilter(ds_docs, ds, ms, qt) ==
    SortByScore(HitsAtOrAbove(ds_docs, ds, ms, MinSimilarity(qt), 1))

\* the fallback pass taking the hits regardless of any threshold
FallbackFilterNoFloor(ds_docs, ds, ms) ==
    SortByScore(HitsAtOrAbove(ds_docs, ds, ms, 0, 1))

\* the fallback pass: fallback_results after its sort
FallbackFilter(ds_docs, ds, ms) ==
    SortByScore(HitsAtOrAbove(ds_docs, ds, ms, floor_threshold, 1))

\* context_parts = [doc for doc, _ in top_results]
RECURSIVE ContextParts(_)
ContextParts(results) ==
    IF results = <<>> THEN <<>>
    ELSE << Head(results)[1] >> \o ContextParts(Tail(results))

Separator == "\n\n---\n\n"

(***************************************************************************)
(* What a call gives its caller.                                           *)
(***************************************************************************)
NoResult == [kind |-> "none", value |-> ""]
Returned(str) == [kind |-> "return", value |-> str]
\* raise HTTPException(status_code=500, detail=...)
RaisedHTTP500(detail) == [kind |-> "raise", value |-> detail]

NoContextFound == "No relevant context found."
NotSufficientlyRelevant == "No sufficiently relevant context found."
CollectionNotAvailable == "No relevant context found - collection not available."
DimensionMismatch == "No relevant context found - embedding dimension mismatch."
RetrievalError == "No relevant context found due to retrieval error."

Sentinels == { NoContextFound, NotSufficientlyRelevant, CollectionNotAvailable,
               DimensionMismatch, RetrievalError }

(***************************************************************************)
(* The collaborators: the embedding model's vector length, the collection  *)
(* and what its query returns.                                             *)
(***************************************************************************)
\* lengths of the vectors of the supported embedding models
EmbeddingDims == {1536, 3072}

\* the vector length the collection was built with
CollectionDim == 1536

DimText(d) == IF d = 1536 THEN "1536" ELSE "3072"

\* the store's error for a query vector of the wrong length
DimensionErrorMessage(d) ==
    "Embedding dimension " \o DimText(d)
        \o " does not match collection dimensionality " \o DimText(CollectionDim)

\* the store's error when the index itself rejects the query vector
IndexDimensionErrorMessage(d) ==
    "Dimensionality of (" \o DimText(d)
        \o ") does not match index dimensionality (" \o DimText(CollectionDim) \o ")"

\* the messages the store raises for a query vector of length d
DimensionErrorMessages(d) == { DimensionErrorMessage(d), IndexDimensionErrorMessage(d) }

OtherQueryErrors == { "Connection reset by peer" }

\* settings.embedding_model for the model producing vectors of length d
ModelName(d) == IF d = 3072 THEN "text-embedding-3-large" ELSE "text-embedding-ada-002"

(***************************************************************************)
(* The error log of the query handler.                                     *)
(***************************************************************************)
Digits == "0123456789"

IsDigit(c) == Contains(Digits, c)

\* the run of digits of s that starts at position i
RECURSIVE DigitRun(_, _)
DigitRun(s, i) ==
    IF i <= Len(s) /\ IsDigit(CharAt(s, i))
    THEN CharAt(s, i) \o DigitRun(s, i + 1)
    ELSE ""

\* str(int(digits)): the leading zeros dropped
RECURSIVE IntText(_)
IntText(digits) ==
    IF Len(digits) > 1 /\ CharAt(digits, 1) = "0" THEN IntText(Tail1(digits))
    ELSE digits

\* re.search(r'dimensionality (\d+)', error_msg): the number as text, or
\* "unknown" when the message has no such part
CollectionDimIn(error_msg) ==
    LET key == "dimensionality "
        starts == { i \in 1..(Len(error_msg) - Len(key)) :
                      /\ SubSeq(error_msg, i, i + Len(key) - 1) = key
                      /\ IsDigit(CharAt(error_msg, i + Len(key))) }
    IN  IF starts = {} THEN "unknown"
        ELSE LET first == CHOOSE i \in starts : \A j \in starts : i <= j
             IN  IntText(DigitRun(error_msg, first + Len(key)))

\* the mismatch entry naming the collection's vector length only
MismatchEntryWithoutQueryLength(query_len, collection_dim) ==
    "Embedding dimension mismatch detected: collection has "
        \o collection_dim \o "-dimensional vectors."

\* the entry "Embedding dimension mismatch detected: ..."
MismatchEntry(query_len, collection_dim) ==
    "Embedding dimension mismatch detected: Query uses " \o query_len
        \o "-dimensional vectors, but collection has "
        \o collection_dim \o "-dimensional vectors."

\* admin_msg
AdminMessage(model, query_len, collection_dim) ==
    "CONFIGURATION ERROR: Embedding model mismatch between query and collection. Current model ("
        \o model \o ") produces " \o query_len
        \o "-dimensional vectors, but your collection contains "
        \o collection_dim \o "-dimensional vectors. To fix this, you need to rebuild the collection with the current embedding model or change EMBEDDING_MODEL in your .env file to match the model used to build the collection."

\* the logger.error entries of the query handler for an exception message
QueryErrorLog(error_msg, embedding_len) ==
    << "Error querying collection: " \o error_msg >>
    \o (IF Contains(Lower(error_msg), "dimension") /\ Contains(Lower(error_msg), "match")
        THEN LET collection_dim == CollectionDimIn(error_msg)
             IN  << MismatchEntry(DimText(embedding_len), collection_dim),
                    AdminMessage(ModelName(embedding_len), DimText(embedding_len),
                                 collection_dim) >>
        ELSE <<>>)

\* the documents of the collection with their metadata items; hit i of a
\* query is entry i, at whatever distance the store reports for it
Corpus ==
    << [doc |-> "Built APIs",
        meta |-> Dict(<< <<"source", "resume.md">>, <<"section", "Work Experience">>,
                         <<"job_title", "Engineer">>, <<"company", "Acme">>,
                         <<"technologies", "Python, AWS">> >>)],
       [doc |-> "Led teams", meta |-> NoDict],
       [doc |-> "Used AWS", meta |-> Dict(<<>>)],
       [doc |-> "Ran trials",
        meta |-> Dict(<< <<"source", "resume.md">>, <<"job_location", "Houston">> >>)],
       [doc |-> "Taught", meta |-> Dict(<<>>)],
       [doc |-> "Wrote docs", meta |-> NoDict],
       [doc |-> "Fixed bugs", meta |-> Dict(<< <<"section", "Skills">> >>)] >>

\* distances a hit may be reported at, in hundredths
Distances == {75, 80, 85, 90, 95}

\* what collection.query can return: up to max_hits hits, entry i of the
\* corpus at any of the distances, in any order of distance; the distances
\* or the metadatas may be missing altogether
QueryResponses(max_hits, distances) ==
    UNION { { [docs |-> [i \in 1..m |-> Corpus[i].doc],
               dists |-> d,
               metas |-> IF with_metas THEN [i \in 1..m |-> Corpus[i].meta] ELSE <<>>] :
                d \in [1..m -> distances] \cup {<<>>}, with_metas \in BOOLEAN } :
            m \in 0..Min(max_hits, Len(Corpus)) }

(***************************************************************************)
(* Queries the classifier is applied to: up to MaxWords fragments joined   *)
(* by single spaces.                                                       *)
(***************************************************************************)
QueryWords ==
    { "When", "Entergy", "Enchanted Rock", "career", "tell me more", "skills",
      "who", "hello", "email", "more details" }

RECURSIVE QueriesOf(_)
QueriesOf(n) ==
    IF n = 0 THEN {""}
    ELSE LET shorter == QueriesOf(n - 1)
         IN  shorter \cup QueryWords
                     \cup { q \o " " \o w : q \in shorter \ {""}, w \in QueryWords }

Queries == QueriesOf(MaxWords)

NotClassified == Classified("", "none")

\* a message of the conversation: a query (a str) or a model response
Human(text) == [is_str |-> TRUE, text |-> text]
AI(text) == [is_str |-> FALSE, text |-> text]

\* no prompt built yet
NoPrompt == [built |-> FALSE, context |-> "", conversation_summary |-> ""]

\* no chat request, nothing stored
NoInvoke == memory = <<>> /\ requests = <<>>

\* call_model is not running
NoChat ==
    /\ messages = <<>> /\ conversation_summary = ""
    /\ context = "" /\ prompt = NoPrompt /\ response = NoResult

(***************************************************************************)
(* get_relevant_context as a state machine: one action per piece of the    *)
(* function between two calls of a collaborator.                           *)
(***************************************************************************)
\* no call in progress
NoCall ==
    /\ pc = "idle"
    /\ query = "" /\ desired_k = 0 /\ k = 0
    /\ enhanced_query = "" /\ query_type = "none"
    /\ query_embedding = 0 /\ initial_k = 0
    /\ docs = <<>> /\ dists = <<>> /\ metas = <<>>
    /\ filtered_results = <<>> /\ fallback_results = <<>>
    /\ used_fallback = FALSE /\ top_results = <<>>
    /\ result = NoResult
    /\ calls = <<>>
    /\ failure = "none"
    /\ error_log = <<>>

\* queries of the calls: one per query type, and two that match several
CallQueries ==
    { "hello there", "who are you", "What are your Python skills?",
      "When did you work at Enchanted Rock?", "tell me more" }

\* k arguments of the calls: below every floor, and the default
CallKs == {1, 5}

\* get_relevant_context(q, kk) up to the call of get_chroma_client
StartCall(q, kk) ==
    /\ pc = "idle"
    /\ LET pre == preprocess_query(q)
       IN  /\ enhanced_query' = pre.enhanced_query
           /\ query_type' = pre.query_type
           /\ k' = AdjustK(pre.query_type, kk)
    /\ query' = q
    /\ desired_k' = kk
    /\ pc' = "get_client"
    /\ UNCHANGED <<query_embedding, initial_k, docs, dists, metas, filtered_results,
                   fallback_results, used_fallback, top_results, result, calls, failure,
                   error_log>>

\* the call ends: its caller has the result
Finish(res) ==
    /\ result' = res
    /\ pc' = "done"

\* client = get_chroma_client(): the client, or the HTTPException it raises,
\* which the outer handler re-raises as HTTPException(500)
GetClient ==
    /\ pc = "get_client"
    /\ calls' = Append(calls, "get_chroma_client")
    /\ \/ pc' = "get_collection" /\ UNCHANGED <<result, failure, error_log>>
       \/ \E cause \in { "ChromaDB directory not found: ./data/chroma",
                         "Collection resume_data does not exist." } :
             /\ failure' = "client"
             /\ error_log' = error_log \o << "Error initializing Chroma client",
                                             "Error retrieving context from vector store" >>
             /\ Finish(RaisedHTTP500("Error retrieving context: 500: Failed to initialize ChromaDB: "
                                        \o cause))
    /\ UNCHANGED <<query, desired_k, k, enhanced_query, query_type, query_embedding,
                   initial_k, docs, dists, metas, filtered_results, fallback_results,
                   used_fallback, top_results>>
    /\ UNCHANGED othervars

\* the collection block going on to the embedding after its failure
GetCollectionThenEmbed ==
    /\ pc = "get_collection"
    /\ calls' = Append(calls, "get_collection")
    /\ \/ pc' = "embed" /\ UNCHANGED <<result, failure, error_log>>
       \/ /\ failure' = "collection"
          /\ error_log' = Append(error_log,
                                 "Failed to get collection: Collection resume_data does not exist.")
          /\ pc' = "embed"
          /\ UNCHANGED result
    /\ UNCHANGED <<query, desired_k, k, enhanced_query, query_type, query_embedding,
                   initial_k, docs, dists, metas, filtered_results, fallback_results,
                   used_fallback, top_results>>
    /\ UNCHANGED othervars

\* collection = client.get_collection("resume_data") and the dimension check:
\* the collection, or the sentinel of the inner handler
GetCollection ==
    /\ pc = "get_collection"
    /\ calls' = Append(calls, "get_collection")
    /\ \/ pc' = "embed" /\ UNCHANGED <<result, failure, error_log>>
       \/ /\ failure' = "collection"
          /\ error_log' = Append(error_log,
                                 "Failed to get collection: Collection resume_data does not exist.")
          /\ Finish(Returned(CollectionNotAvailable))
    /\ UNCHANGED <<query, desired_k, k, enhanced_query, query_type, query_embedding,
                   initial_k, docs, dists, metas, filtered_results, fallback_results,
                   used_fallback, top_results>>
    /\ UNCHANGED othervars

\* the embedding step calling the provider again, up to three times, when
\* the provider raises
EmbedRetrying ==
    /\ pc = "embed"
    /\ calls' = Append(calls, "get_embeddings")
    /\ \/ \E dim \in EmbeddingDims :
             /\ query_embedding' = dim
             /\ pc' = "query"
             /\ UNCHANGED <<result, failure, error_log>>
       \/ /\ failure' = "embedding_empty"
          /\ error_log' = error_log \o << "Failed to generate query embeddings",
                                          "Error retrieving context from vector store" >>
          /\ Finish(RaisedHTTP500("Error retrieving context: Failed to generate query embeddings"))
          /\ UNCHANGED query_embedding
       \/ /\ Len(calls) < 4
          /\ UNCHANGED <<pc, result, failure, error_log, query_embedding>>
       \/ /\ Len(calls) >= 4
          /\ failure' = "embedding_raised"
          /\ error_log' = Append(error_log, "Error retrieving context from vector store")
          /\ Finish(RaisedHTTP500("Error retrieving context: Connection error."))
          /\ UNCHANGED query_embedding
    /\ UNCHANGED <<query, desired_k, k, enhanced_query, query_type,
                   initial_k, docs, dists, metas, filtered_results, fallback_results,
                   used_fallback, top_results>>
    /\ UNCHANGED othervars

\* query_embedding = await get_embeddings(enhanced_query): a vector, an
\* empty vector (ValueError), or the provider's exception; the outer handler
\* re-raises both failures as HTTPException(500)
Embed ==
    /\ pc = "embed"
    /\ calls' = Append(calls, "get_embeddings")
    /\ \/ \E dim \in EmbeddingDims :
             /\ query_embedding' = dim
             /\ pc' = "query"
             /\ UNCHANGED <<result, failure, error_log>>
       \/ /\ failure' = "embedding_empty"
          /\ error_log' = error_log \o << "Failed to generate query embeddings",
                                          "Error retrieving context from vector store" >>
          /\ Finish(RaisedHTTP500("Error retrieving context: Failed to generate query embeddings"))
          /\ UNCHANGED query_embedding
       \/ /\ failure' = "embedding_raised"
          /\ error_log' = Append(error_log, "Error retrieving context from vector store")
          /\ Finish(RaisedHTTP500("Error retrieving context: Connection error."))
          /\ UNCHANGED query_embedding
    /\ UNCHANGED <<query, desired_k, k, enhanced_query, query_type,
                   initial_k, docs, dists, metas, filtered_results, fallback_results,
                   used_fallback, top_results>>
    /\ UNCHANGED othervars

\* the handler of the query block letting the exception through to the
\* outer handler
QueryErrorReraised(error_msg) ==
    RaisedHTTP500("Error retrieving context: " \o error_msg)

\* the handler of the query block without its dimension test
QueryErrorGeneric(error_msg) == Returned(RetrievalError)

\* the handler of the query block: the sentinel for an exception message
QueryErrorResult(error_msg) ==
    IF Contains(Lower(error_msg), "dimension") /\ Contains(Lower(error_msg), "match")
    THEN Returned(DimensionMismatch)
    ELSE Returned(RetrievalError)

\* collection.query raised error_msg
QueryRaises(error_msg) ==
    /\ Finish(QueryErrorResult(error_msg))
    /\ error_log' = error_log \o QueryErrorLog(error_msg, query_embedding)
    /\ UNCHANGED <<docs, dists, metas, filtered_results, fallback_results,
                   used_fallback, top_results>>

\* the rest of the function filling the list up to k with hits of the
\* fallback pass when fewer than k hits passed the first
ProcessResultsToppingUp(r) ==
    /\ error_log' = error_log
    /\ docs' = r.docs
    /\ dists' = r.dists
    /\ metas' = r.metas
    /\ IF Len(r.docs) = 0
       THEN /\ Finish(Returned(NoContextFound))
            /\ UNCHANGED <<filtered_results, fallback_results, used_fallback, top_results>>
       ELSE LET filtered == PrimaryFilter(r.docs, r.dists, r.metas, query_type)
                fallback == FallbackFilter(r.docs, r.dists, r.metas)
                below == SelectSeq(fallback, LAMBDA e : e[2] < MinSimilarity(query_type))
                top == Take(filtered \o below, k)
            IN  /\ filtered_results' = filtered
                /\ used_fallback' = (Take(filtered, k) = <<>>)
                /\ fallback_results' = IF Take(filtered, k) = <<>> THEN fallback ELSE <<>>
                /\ top_results' = top
                /\ IF top = <<>>
                   THEN Finish(Returned(NotSufficientlyRelevant))
                   ELSE Finish(Returned(Join(Separator, ContextParts(top))))

\* the rest of the function without the early return for no documents
ProcessResultsWithoutEmptyCheck(r) ==
    /\ error_log' = error_log
    /\ docs' = r.docs
    /\ dists' = r.dists
    /\ metas' = r.metas
    /\ LET filtered == PrimaryFilter(r.docs, r.dists, r.metas, query_type)
           fallback == FallbackFilter(r.docs, r.dists, r.metas)
           top == IF Take(filtered, k) # <<>> THEN Take(filtered, k)
                                              ELSE Take(fallback, k)
       IN  /\ filtered_results' = filtered
           /\ used_fallback' = (Take(filtered, k) = <<>>)
           /\ fallback_results' = IF Take(filtered, k) = <<>> THEN fallback ELSE <<>>
           /\ top_results' = top
           /\ IF top = <<>>
              THEN Finish(Returned(NotSufficientlyRelevant))
              ELSE Finish(Returned(Join(Separator, ContextParts(top))))

\* collection.query returned r: the rest of the function
ProcessResults(r) ==
    /\ error_log' = error_log
    /\ docs' = r.docs
    /\ dists' = r.dists
    /\ metas' = r.metas
    /\ IF Len(r.docs) = 0
       THEN /\ Finish(Returned(NoContextFound))
            /\ UNCHANGED <<filtered_results, fallback_results, used_fallback, top_results>>
       ELSE LET filtered == PrimaryFilter(r.docs, r.dists, r.metas, query_type)
                fallback == FallbackFilter(r.docs, r.dists, r.metas)
                top == IF Take(filtered, k) # <<>> THEN Take(filtered, k)
                                                   ELSE Take(fallback, k)
            IN  /\ filtered_results' = filtered
                /\ used_fallback' = (Take(filtered, k) = <<>>)
                /\ fallback_results' = IF Take(filtered, k) = <<>> THEN fallback ELSE <<>>
                /\ top_results' = top
                /\ IF top = <<>>
                   THEN Finish(Returned(NotSufficientlyRelevant))
                   ELSE Finish(Returned(Join(Separator, ContextParts(top))))

\* initial_k and collection.query(...), then the results are processed or
\* the exception handled.  A vector of the wrong length makes the store
\* raise its dimension error; any query may fail for another reason.
QueryWith(responses) ==
    /\ pc = "query"
    /\ calls' = Append(calls, "query")
    /\ initial_k' = InitialK(k)
    /\ \/ /\ query_embedding = CollectionDim
          /\ \E r \in responses : Len(r.docs) <= InitialK(k) /\ ProcessResults(r)
          /\ UNCHANGED failure
       \/ /\ query_embedding # CollectionDim
          /\ failure' = "dimension"
          /\ \E error_msg \in DimensionErrorMessages(query_embedding) :
                QueryRaises(error_msg)
       \/ /\ failure' = "query"
          /\ \E error_msg \in OtherQueryErrors : QueryRaises(error_msg)
    /\ UNCHANGED <<query, desired_k, k, enhanced_query, query_type, query_embedding>>
    /\ UNCHANGED othervars

\* the caller has taken the result; the next call may start
Return ==
    /\ pc = "done"
    /\ pc' = "idle"
    /\ query' = "" /\ desired_k' = 0 /\ k' = 0
    /\ enhanced_query' = "" /\ query_type' = "none"
    /\ query_embedding' = 0 /\ initial_k' = 0
    /\ docs' = <<>> /\ dists' = <<>> /\ metas' = <<>>
    /\ filtered_results' = <<>> /\ fallback_results' = <<>>
    /\ used_fallback' = FALSE /\ top_results' = <<>>
    /\ result' = NoResult
    /\ calls' = <<>>
    /\ failure' = "none"
    /\ error_log' = <<>>
    /\ UNCHANGED othervars

Start ==
    /\ \E q \in CallQueries, kk \in CallKs : StartCall(q, kk)
    /\ UNCHANGED othervars

Query == QueryWith(QueryResponses(MaxHits, Distances))

Init ==
    /\ NoCall
    /\ NoChat
    /\ task = <<>>
    /\ NoInvoke
    /\ pq_in = "" /\ pq_out = NotClassified
    /\ fmt_doc = "" /\ fmt_meta = <<>> /\ fmt_out = NotFormatted /\ fmt_log = <<>>

Next ==
    \/ Start
    \/ GetClient
    \/ GetCollection
    \/ Embed
    \/ Query
    \/ Return

Spec == Init /\ [][Next]_vars

(***************************************************************************)
(* The same calls for every k argument up to MaxK, over a collection       *)
(* whose query finds nothing.                                              *)
(***************************************************************************)
StartAnyK ==
    /\ \E q \in CallQueries, kk \in 1..MaxK : StartCall(q, kk)
    /\ UNCHANGED othervars

QueryEmpty == QueryWith(QueryResponses(0, Distances))

NextK ==
    \/ StartAnyK
    \/ GetClient
    \/ GetCollection
    \/ Embed
    \/ QueryEmpty
    \/ Return

SpecK == Init /\ [][NextK]_vars

(***************************************************************************)
(* The same calls for a general query, over responses of up to MaxRankHits *)
(* hits: more hits than the call keeps.                                    *)
(***************************************************************************)
RankDistances == {75, 85, 90, 95}

RankKs == {1}

StartRank ==
    /\ \E kk \in RankKs : StartCall("hello there", kk)
    /\ UNCHANGED othervars

QueryRank == QueryWith(QueryResponses(MaxRankHits, RankDistances))

NextRank ==
    \/ StartRank
    \/ GetClient
    \/ GetCollection
    \/ Embed
    \/ QueryRank
    \/ Return

SpecRank == Init /\ [][NextRank]_vars

(***************************************************************************)
(* call_model of the chat chain: the summary of the conversation, the      *)
(* context from get_context, which calls get_relevant_context with its     *)
(* default k, then the prompt and the model.                               *)
(***************************************************************************)
\* [msg for msg in msgs if isinstance(msg, str)], as texts
RECURSIVE StrTexts(_)
StrTexts(msgs) ==
    IF msgs = <<>> THEN <<>>
    ELSE (IF Head(msgs).is_str THEN << Head(msgs).text >> ELSE <<>>)
             \o StrTexts(Tail(msgs))

\* summarize_conversation(msgs), max_messages = 3
summarize_conversation(msgs) ==
    IF Len(msgs) <= 1 THEN "no previous topics"
    ELSE LET all_but_last == SubSeq(msgs, 1, Len(msgs) - 1)
             recent_messages ==
                 IF Len(all_but_last) > 3
                 THEN SubSeq(all_but_last, Len(all_but_last) - 2, Len(all_but_last))
                 ELSE all_but_last
         IN  Join(", ", Take(StrTexts(recent_messages), 3))

\* get_context passing the query as it is
ContextQueryWithoutSummary(q, summary) == q

\* the query get_context passes to get_relevant_context
ContextQuery(q, summary) ==
    IF summary # "" THEN q \o " (Previous conversation about: " \o summary \o ")"
    ELSE q

\* state["messages"] of the calls
Conversations ==
    { << Human("hello there") >>,
      << Human("What are your Python skills?") >>,
      << Human("who are you"), AI("I am Blake."), Human("tell me more") >>,
      << Human("who are you") >>,
      << Human(""), AI("How can I help?"), Human("who are you") >> }

\* call_model(state) up to get_chroma_client inside get_relevant_context
CallModel ==
    /\ \E msgs \in Conversations :
          LET q == msgs[Len(msgs)].text
              summary == summarize_conversation(SubSeq(msgs, 1, Len(msgs) - 1))
          IN  /\ messages' = msgs
              /\ conversation_summary' = summary
              /\ StartCall(ContextQuery(q, summary), 5)
    /\ UNCHANGED <<context, prompt, response, fnvars, task, invokevars>>

\* get_context letting the exception of get_relevant_context through:
\* call_model ends with it, no prompt built
GetContextPropagating ==
    /\ pc = "done"
    /\ IF result.kind = "return"
       THEN context' = result.value /\ pc' = "build_prompt" /\ UNCHANGED response
       ELSE /\ response' = result
            /\ pc' = "model_done"
            /\ UNCHANGED context
    /\ UNCHANGED <<query, desired_k, k, enhanced_query, query_type, query_embedding,
                   initial_k, docs, dists, metas, filtered_results, fallback_results,
                   used_fallback, top_results, result, calls, failure, error_log>>
    /\ UNCHANGED <<messages, conversation_summary, prompt, fnvars, task, invokevars>>

\* get_context returns: the context, or its own sentinel for any exception
GetContextReturns ==
    /\ pc = "done"
    /\ context' = IF result.kind = "return" THEN result.value ELSE NoContextFound
    /\ pc' = "build_prompt"
    /\ UNCHANGED <<query, desired_k, k, enhanced_query, query_type, query_embedding,
                   initial_k, docs, dists, metas, filtered_results, fallback_results,
                   used_fallback, top_results, result, calls, failure, error_log>>
    /\ UNCHANGED <<messages, conversation_summary, prompt, response, fnvars, task, invokevars>>

\* prompt_template.invoke(...) and chat_model.invoke(prompt): a response, or
\* the model's exception
InvokeModel ==
    /\ pc = "build_prompt"
    /\ prompt' = [built |-> TRUE, context |-> context,
                  conversation_summary |-> conversation_summary]
    /\ \/ response' = Returned("Happy to tell you more.")
       \/ response' = [kind |-> "raise", value |-> "Rate limit reached"]
    /\ pc' = "model_done"
    /\ UNCHANGED <<query, desired_k, k, enhanced_query, query_type, query_embedding,
                   initial_k, docs, dists, metas, filtered_results, fallback_results,
                   used_fallback, top_results, result, calls, failure, error_log>>
    /\ UNCHANGED <<messages, conversation_summary, context, fnvars, task, invokevars>>

\* call_model has ended; the next one may start
ReturnChat ==
    /\ pc = "model_done"
    /\ pc' = "idle"
    /\ query' = "" /\ desired_k' = 0 /\ k' = 0
    /\ enhanced_query' = "" /\ query_type' = "none"
    /\ query_embedding' = 0 /\ initial_k' = 0
    /\ docs' = <<>> /\ dists' = <<>> /\ metas' = <<>>
    /\ filtered_results' = <<>> /\ fallback_results' = <<>>
    /\ used_fallback' = FALSE /\ top_results' = <<>>
    /\ result' = NoResult
    /\ calls' = <<>>
    /\ failure' = "none"
    /\ error_log' = <<>>
    /\ messages' = <<>> /\ conversation_summary' = ""
    /\ context' = "" /\ prompt' = NoPrompt /\ response' = NoResult
    /\ UNCHANGED <<fnvars, task, invokevars>>

\* distances of the hits of the chat calls
ChatDistances == {75, 95}

QueryChat == QueryWith(QueryResponses(1, ChatDistances))

NextChat ==
    \/ CallModel
    \/ GetClient
    \/ GetCollection
    \/ Embed
    \/ QueryChat
    \/ GetContextReturns
    \/ InvokeModel
    \/ ReturnChat

SpecChat == Init /\ [][NextChat]_vars

(***************************************************************************)
(* Concurrent get_relevant_context calls, one per chat request, over the   *)
(* same collection.  The function keeps everything it computes in local    *)
(* variables of the call; a step of a call is a piece of the function      *)
(* between two calls of a collaborator, and the steps of the calls         *)
(* interleave.                                                             *)
(***************************************************************************)
Tasks == {1, 2}

\* the frame holding the local variables of call t
FrameOfModule(t) == 1

FrameOf(t) == t

NoResponse == [docs |-> <<>>, dists |-> <<>>, metas |-> <<>>]

\* what the collaborators answered to a call
NoAnswers ==
    [client |-> "none", collection |-> "none", embedding |-> "none", dim |-> 0,
     query |-> "none", error_msg |-> "", response |-> NoResponse]

NoLocals == [enhanced_query |-> "", query_type |-> "none", k |-> 0, query_embedding |-> 0]

IdleTask ==
    [pc |-> "idle", query |-> "", answers |-> NoAnswers, result |-> NoResult,
     locals |-> NoLocals]

\* the local variables call t reads and writes
Locals(t) == task[FrameOf(t)].locals

\* what the function returns for the results r of the query
ProcessedResult(r, qt, kk) ==
    IF Len(r.docs) = 0 THEN Returned(NoContextFound)
    ELSE LET filtered == PrimaryFilter(r.docs, r.dists, r.metas, qt)
             fallback == FallbackFilter(r.docs, r.dists, r.metas)
             top == IF Take(filtered, kk) # <<>> THEN Take(filtered, kk)
                                                 ELSE Take(fallback, kk)
         IN  IF top = <<>> THEN Returned(NotSufficientlyRelevant)
             ELSE Returned(Join(Separator, ContextParts(top)))

ClientError ==
    "Error retrieving context: 500: Failed to initialize ChromaDB: Collection resume_data does not exist."

\* queries of the concurrent calls: two query types
TaskQueries == { "hello there", "What are your Python skills?" }

TaskDistances == {75, 80}

TaskResponses == QueryResponses(2, TaskDistances)

\* call t: preprocess_query and the k adjustment, k being the default 5
TaskStart(t) ==
    /\ task[t].pc = "idle"
    /\ \E q \in TaskQueries :
          LET pre == preprocess_query(q)
          IN  task' = [task EXCEPT
                  ![FrameOf(t)].locals =
                      [enhanced_query |-> pre.enhanced_query,
                       query_type |-> pre.query_type,
                       k |-> AdjustK(pre.query_type, 5),
                       query_embedding |-> 0],
                  ![t].query = q,
                  ![t].pc = "get_client"]
    /\ UNCHANGED <<fnvars, callvars, chatvars, invokevars>>

\* call t: get_chroma_client()
TaskGetClient(t) ==
    /\ task[t].pc = "get_client"
    /\ \/ task' = [task EXCEPT ![t].answers.client = "ok", ![t].pc = "get_collection"]
       \/ task' = [task EXCEPT ![t].answers.client = "failed",
                                ![t].result = RaisedHTTP500(ClientError),
                                ![t].pc = "done"]
    /\ UNCHANGED <<fnvars, callvars, chatvars, invokevars>>

\* call t: client.get_collection("resume_data")
TaskGetCollection(t) ==
    /\ task[t].pc = "get_collection"
    /\ \/ task' = [task EXCEPT ![t].answers.collection = "ok", ![t].pc = "embed"]
       \/ task' = [task EXCEPT ![t].answers.collection = "failed",
                                ![t].result = Returned(CollectionNotAvailable),
                                ![t].pc = "done"]
    /\ UNCHANGED <<fnvars, callvars, chatvars, invokevars>>

\* call t: await get_embeddings(enhanced_query)
TaskEmbed(t) ==
    /\ task[t].pc = "embed"
    /\ \/ \E dim \in EmbeddingDims :
             task' = [task EXCEPT ![FrameOf(t)].locals.query_embedding = dim,
                                  ![t].answers.embedding = "vector",
                                  ![t].answers.dim = dim,
                                  ![t].pc = "query"]
       \/ task' = [task EXCEPT
                      ![t].answers.embedding = "empty",
                      ![t].result = RaisedHTTP500("Error retrieving context: Failed to generate query embeddings"),
                      ![t].pc = "done"]
       \/ task' = [task EXCEPT
                      ![t].answers.embedding = "raised",
                      ![t].result = RaisedHTTP500("Error retrieving context: Connection error."),
                      ![t].pc = "done"]
    /\ UNCHANGED <<fnvars, callvars, chatvars, invokevars>>

\* call t: collection.query(...) and the rest of the function
TaskQuery(t) ==
    /\ task[t].pc = "query"
    /\ \/ /\ Locals(t).query_embedding = CollectionDim
          /\ \E r \in TaskResponses :
                /\ Len(r.docs) <= InitialK(Locals(t).k)
                /\ task' = [task EXCEPT
                       ![t].answers.query = "results",
                       ![t].answers.response = r,
                       ![t].result = ProcessedResult(r, Locals(t).query_type, Locals(t).k),
                       ![t].pc = "done"]
       \/ /\ Locals(t).query_embedding # CollectionDim
          /\ \E error_msg \in DimensionErrorMessages(Locals(t).query_embedding) :
                task' = [task EXCEPT ![t].answers.query = "raised",
                                     ![t].answers.error_msg = error_msg,
                                     ![t].result = QueryErrorResult(error_msg),
                                     ![t].pc = "done"]
       \/ \E error_msg \in OtherQueryErrors :
             task' = [task EXCEPT ![t].answers.query = "raised",
                                  ![t].answers.error_msg = error_msg,
                                  ![t].result = QueryErrorResult(error_msg),
                                  ![t].pc = "done"]
    /\ UNCHANGED <<fnvars, callvars, chatvars, invokevars>>

InitTasks ==
    /\ task = [t \in Tasks |-> IdleTask]
    /\ NoInvoke
    /\ NoCall
    /\ NoChat
    /\ pq_in = "" /\ pq_out = NotClassified
    /\ fmt_doc = "" /\ fmt_meta = <<>> /\ fmt_out = NotFormatted /\ fmt_log = <<>>

NextTasks ==
    \E t \in Tasks :
        \/ TaskStart(t)
        \/ TaskGetClient(t)
        \/ TaskGetCollection(t)
        \/ TaskEmbed(t)
        \/ TaskQuery(t)

SpecTasks == InitTasks /\ [][NextTasks]_vars

(***************************************************************************)
(* chat_invoke over the compiled graph and its MemorySaver checkpointer.   *)
(* The state keys have no reducer, so an invocation writes its input over  *)
(* the stored messages of the thread, and the node's return over that.     *)
(* The node call_model is taken by its outcome: the messages it was given  *)
(* followed by the model's response, or an exception.                      *)
(***************************************************************************)
ThreadIds == { "t1", "t2" }

Requests == {1, 2}

\* the query of each chat request
RequestQuery == << "who are you", "tell me more" >>

\* what the model answers to a query
ResponseTo(q) == AI("Answer to " \o q)

\* histories a thread may hold from earlier chats
StoredHistories ==
    { <<>>, << Human("hello there"), ResponseTo("hello there") >> }

IdleRequest ==
    [pc |-> "idle", thread_id |-> "", query |-> "", state_found |-> FALSE,
     state_input |-> <<>>, invocations |-> <<>>, first_raised |-> FALSE,
     before |-> <<>>, after |-> <<>>, answer |-> NoResult]

\* no other chat request is between its start and its end
NoOtherRequest(r) ==
    \A other \in Requests \ {r} : requests[other].pc \in {"idle", "returned", "raised"}

\* chat_endpoint receives a request for some thread
ChatInvoke(r) ==
    /\ requests[r].pc = "idle"
    /\ \E t \in ThreadIds :
          requests' = [requests EXCEPT ![r].pc = "get_state",
                                       ![r].thread_id = t,
                                       ![r].query = RequestQuery[r],
                                       ![r].before = memory]
    /\ UNCHANGED <<memory, fnvars, callvars, chatvars, task>>

\* the same, one request at a time
ChatInvokeAlone(r) == NoOtherRequest(r) /\ ChatInvoke(r)

\* the fallback keeping the messages of the first attempt
FallbackInputKeepingHistory(req) == req.state_input

\* state_input of the fallback: a new conversation
FallbackInput(req) == << Human(req.query) >>

\* chat_app.get_state(config) and the choice of state_input; a thread with
\* no checkpoint has empty values
GetState(r) ==
    /\ requests[r].pc = "get_state"
    /\ LET req == requests[r]
           existing == memory[req.thread_id]
       IN  \/ requests' = [requests EXCEPT
                  ![r].state_found = (existing # <<>>),
                  ![r].state_input = IF existing # <<>>
                                     THEN existing \o << Human(req.query) >>
                                     ELSE << Human(req.query) >>,
                  ![r].pc = "invoke"]
           \/ requests' = [requests EXCEPT
                  ![r].state_found = FALSE,
                  ![r].state_input = << Human(req.query) >>,
                  ![r].pc = "invoke"]
    /\ UNCHANGED <<memory, fnvars, callvars, chatvars, task>>

\* chat_app.invoke(state_input, config): the input is written to the thread
InvokeGraph(r) ==
    /\ requests[r].pc = "invoke"
    /\ LET req == requests[r]
       IN  /\ memory' = [memory EXCEPT ![req.thread_id] = req.state_input]
           /\ requests' = [requests EXCEPT
                  ![r].invocations = Append(req.invocations, req.state_input),
                  ![r].pc = "model"]
    /\ UNCHANGED <<fnvars, callvars, chatvars, task>>

\* the node returning the response alone as the messages of the thread
ModelNodeReturningResponseOnly(r) ==
    /\ requests[r].pc = "model"
    /\ LET req == requests[r]
           new_messages == << ResponseTo(req.query) >>
       IN  \/ /\ memory' = [memory EXCEPT ![req.thread_id] = new_messages]
              /\ requests' = [requests EXCEPT
                     ![r].answer = Returned(ResponseTo(req.query).text),
                     ![r].after = memory',
                     ![r].pc = "returned"]
           \/ /\ requests' = [requests EXCEPT ![r].first_raised = TRUE,
                                               ![r].pc = "fallback"]
              /\ UNCHANGED memory
    /\ UNCHANGED <<fnvars, callvars, chatvars, task>>

\* the node call_model of that invocation: its return is written to the
\* thread and chat_invoke returns the last message, or it raises
ModelNode(r) ==
    /\ requests[r].pc = "model"
    /\ LET req == requests[r]
           new_messages == req.state_input \o << ResponseTo(req.query) >>
       IN  \/ /\ memory' = [memory EXCEPT ![req.thread_id] = new_messages]
              /\ requests' = [requests EXCEPT
                     ![r].answer = Returned(ResponseTo(req.query).text),
                     ![r].after = memory',
                     ![r].pc = "returned"]
           \/ /\ requests' = [requests EXCEPT ![r].first_raised = TRUE,
                                               ![r].pc = "fallback"]
              /\ UNCHANGED memory
    /\ UNCHANGED <<fnvars, callvars, chatvars, task>>

\* the except block: chat_app.invoke with a new conversation
FallbackInvoke(r) ==
    /\ requests[r].pc = "fallback"
    /\ LET req == requests[r]
           input == FallbackInput(req)
       IN  /\ memory' = [memory EXCEPT ![req.thread_id] = input]
           /\ requests' = [requests EXCEPT
                  ![r].state_input = input,
                  ![r].invocations = Append(req.invocations, input),
                  ![r].pc = "fallback_model"]
    /\ UNCHANGED <<fnvars, callvars, chatvars, task>>

\* the node call_model of the second invocation; its exception leaves
\* chat_invoke, and chat_endpoint raises HTTPException(500)
FallbackNode(r) ==
    /\ requests[r].pc = "fallback_model"
    /\ LET req == requests[r]
           new_messages == req.state_input \o << ResponseTo(req.query) >>
       IN  \/ /\ memory' = [memory EXCEPT ![req.thread_id] = new_messages]
              /\ requests' = [requests EXCEPT
                     ![r].answer = Returned(ResponseTo(req.query).text),
                     ![r].after = memory',
                     ![r].pc = "returned"]
           \/ /\ requests' = [requests EXCEPT
                     ![r].answer = RaisedHTTP500("Rate limit reached"),
                     ![r].after = memory,
                     ![r].pc = "raised"]
              /\ UNCHANGED memory
    /\ UNCHANGED <<fnvars, callvars, chatvars, task>>

InitInvoke ==
    /\ memory \in [ThreadIds -> StoredHistories]
    /\ requests = [r \in Requests |-> IdleRequest]
    /\ task = <<>>
    /\ NoCall
    /\ NoChat
    /\ pq_in = "" /\ pq_out = NotClassified
    /\ fmt_doc = "" /\ fmt_meta = <<>> /\ fmt_out = NotFormatted /\ fmt_log = <<>>

\* chat requests handled one after the other
NextInvoke ==
    \E r \in Requests :
        \/ ChatInvokeAlone(r)
        \/ GetState(r)
        \/ InvokeGraph(r)
        \/ ModelNode(r)
        \/ FallbackInvoke(r)
        \/ FallbackNode(r)

SpecInvoke == InitInvoke /\ [][NextInvoke]_vars

\* chat requests handled by the threads of the server's pool, overlapping
NextOverlap ==
    \E r \in Requests :
        \/ ChatInvoke(r)
        \/ GetState(r)
        \/ InvokeGraph(r)
        \/ ModelNode(r)
        \/ FallbackInvoke(r)
        \/ FallbackNode(r)

SpecOverlap == InitInvoke /\ [][NextOverlap]_vars

(***************************************************************************)
(* Specification of preprocess_query as a function of its argument.        *)
(***************************************************************************)
InitPQ ==
    /\ pq_in \in Queries
    /\ pq_out = NotClassified
    /\ fmt_doc = "" /\ fmt_meta = <<>> /\ fmt_out = NotFormatted /\ fmt_log = <<>>
    /\ NoCall
    /\ NoChat
    /\ task = <<>>
    /\ NoInvoke

PreprocessQuery ==
    /\ pq_out = NotClassified
    /\ pq_out' = preprocess_query(pq_in)
    /\ UNCHANGED <<pq_in, fmt_doc, fmt_meta, fmt_out, fmt_log, callvars, chatvars, task, invokevars>>

NextPQ == PreprocessQuery

\* the entries of a pattern list
Entries(patterns) == { patterns[i] : i \in 1..Len(patterns) }

\* the queries that are exactly one entry of a pattern list
PatternQueries ==
    Entries(timeline_patterns) \cup Entries(company_names)
        \cup Entries(career_history_patterns) \cup Entries(followup_patterns)
        \cup Entries(technical_patterns) \cup Entries(basic_info_patterns)

InitPatterns ==
    /\ pq_in \in PatternQueries
    /\ pq_out = NotClassified
    /\ fmt_doc = "" /\ fmt_meta = <<>> /\ fmt_out = NotFormatted /\ fmt_log = <<>>
    /\ NoCall
    /\ NoChat
    /\ task = <<>>
    /\ NoInvoke

SpecPatterns == InitPatterns /\ [][NextPQ]_vars

\* the empty query and the queries of up to MaxBlankLen whitespace characters
RECURSIVE BlankQueriesOf(_)
BlankQueriesOf(n) ==
    IF n = 0 THEN {""}
    ELSE LET shorter == BlankQueriesOf(n - 1)
         IN  shorter \cup { q \o c : q \in shorter, c \in WhitespaceChars }

BlankQueries == BlankQueriesOf(MaxBlankLen)

InitBlank ==
    /\ pq_in \in BlankQueries
    /\ pq_out = NotClassified
    /\ fmt_doc = "" /\ fmt_meta = <<>> /\ fmt_out = NotFormatted /\ fmt_log = <<>>
    /\ NoCall
    /\ NoChat
    /\ task = <<>>
    /\ NoInvoke

SpecBlank == InitBlank /\ [][NextPQ]_vars

SpecPQ == InitPQ /\ [][NextPQ]_vars

(***************************************************************************)
(* Specification of format_document_with_metadata as a function of its     *)
(* arguments.                                                              *)
(***************************************************************************)
InitFmt ==
    /\ fmt_doc \in Documents
    /\ fmt_meta \in Metadatas
    /\ fmt_out = NotFormatted /\ fmt_log = <<>>
    /\ pq_in = "" /\ pq_out = NotClassified
    /\ NoCall
    /\ NoChat
    /\ task = <<>>
    /\ NoInvoke

\* a formatter that takes the consumed keys out of the mapping it is given
MetadataWithoutUsedKeys(metadata) ==
    SelectSeq(metadata, LAMBDA item : item[1] \notin used_keys)

\* the mapping after the call: the function only reads it (get, items)
MetadataAfterCall(metadata) == metadata

\* one call format_document_with_metadata(fmt_doc, fmt_meta)
FormatCall ==
    /\ fmt_out' = [called |-> TRUE,
                   value |-> format_document_with_metadata(fmt_doc, fmt_meta)]
    /\ fmt_log' = Append(fmt_log,
                         [document |-> fmt_doc, metadata |-> fmt_meta,
                          value |-> format_document_with_metadata(fmt_doc, fmt_meta)])
    /\ fmt_meta' = MetadataAfterCall(fmt_meta)
    /\ UNCHANGED <<fmt_doc, pq_in, pq_out, callvars, chatvars, task, invokevars>>

FormatDocument ==
    /\ ~fmt_out.called
    /\ FormatCall

\* the same document and the same mapping formatted a second time
FormatAgain ==
    /\ fmt_out.called
    /\ Len(fmt_log) = 1
    /\ FormatCall

NextFmtTwice ==
    \/ FormatDocument
    \/ FormatAgain

SpecFmtTwice == InitFmt /\ [][NextFmtTwice]_vars

NextFmt == FormatDocument

SpecFmt == InitFmt /\ [][NextFmt]_vars

(***************************************************************************)
(* Properties of preprocess_query.                                         *)
(***************************************************************************)
MatchesTimeline(q)  == AnyIn(timeline_patterns, Lower(q))
MatchesCompany(q)   == AnyIn(company_names, Lower(q))
MatchesCareer(q)    == AnyIn(career_history_patterns, Lower(q))
MatchesFollowup(q)  == AnyIn(followup_patterns, Lower(q))
MatchesTechnical(q) == AnyIn(technical_patterns, Lower(q))
MatchesBasicInfo(q) == AnyIn(basic_info_patterns, Lower(q))

\* the number of pattern categories a query matches
MatchCount(q) ==
    Cardinality({ i \in 1..6 :
        \/ i = 1 /\ MatchesTimeline(q)
        \/ i = 2 /\ MatchesCompany(q)
        \/ i = 3 /\ MatchesCareer(q)
        \/ i = 4 /\ MatchesFollowup(q)
        \/ i = 5 /\ MatchesTechnical(q)
        \/ i = 6 /\ MatchesBasicInfo(q) })

PQApplied == pq_out # NotClassified

\* the intent of the first matching category in the order timeline, company
\* name, career history, follow-up, technical, basic info
HighestPriorityIntent(q) ==
    IF MatchesTimeline(q) \/ MatchesCompany(q) \/ MatchesCareer(q) THEN "career_history"
    ELSE IF MatchesFollowup(q) THEN "followup_question"
    ELSE IF MatchesTechnical(q) THEN "technical_expertise"
    ELSE IF MatchesBasicInfo(q) THEN "basic_info"
    ELSE "general"

\* the intent of the last matching block: technical overrides follow-up,
\* follow-up overrides career history, basic info only when nothing else matched
OverridingIntent(q) ==
    IF MatchesTechnical(q) THEN "technical_expertise"
    ELSE IF MatchesFollowup(q) THEN "followup_question"
    ELSE IF MatchesTimeline(q) \/ MatchesCompany(q) \/ MatchesCareer(q) THEN "career_history"
    ELSE IF MatchesBasicInfo(q) THEN "basic_info"
    ELSE "general"

\* C2 as stated: a query matching more than one category gets the intent of
\* the highest-priority matching category (timeline, company name, career
\* history, follow-up, technical, basic info).
C2_HighestPriorityWins ==
    (PQApplied /\ MatchCount(pq_in) > 1)
        => pq_out.query_type = HighestPriorityIntent(pq_in)

\* C2 amended: a query matching more than one category gets the intent of the
\* last matching block in evaluation order: technical_expertise when a
\* technical pattern matches, else followup_question when a follow-up pattern
\* matches, else career_history when a timeline, company or career pattern
\* matches; basic_info is never returned for such a query.
C2_LastMatchingBlockWins ==
    (PQApplied /\ MatchCount(pq_in) > 1)
        => /\ pq_out.query_type = OverridingIntent(pq_in)
           /\ pq_out.query_type # "basic_info"

\* C2 witness: a query matching a follow-up and a technical pattern (and a
\* company name) has been classified technical_expertise.
C2_Witness ==
    /\ PQApplied
    /\ MatchesCompany(pq_in) /\ MatchesFollowup(pq_in) /\ MatchesTechnical(pq_in)
    /\ ~MatchesTimeline(pq_in)
    /\ pq_out.query_type = "technical_expertise"

\* the company names a query mentions (case-insensitively)
MentionedCompanies(q) ==
    { company_names[i] : i \in { j \in 1..Len(company_names) :
                                    Contains(Lower(q), company_names[j]) } }

\* C3 as stated: a query containing a recognised organization name is
\* classified career_history and its enhanced query contains that name, also
\* when it contains a technical or follow-up keyword.
C3_CompanyIsCareerHistory ==
    (PQApplied /\ MatchesCompany(pq_in))
        => /\ pq_out.query_type = "career_history"
           /\ \A c \in MentionedCompanies(pq_in) :
                  Contains(Lower(pq_out.enhanced_query), c)

\* C3 amended: for a query containing a recognised organization name the
\* enhanced query contains that name, and the intent is career_history unless
\* the query also contains a technical keyword (then technical_expertise) or,
\* failing that, a follow-up phrase (then followup_question).
C3_CompanyUnlessOverridden ==
    (PQApplied /\ MatchesCompany(pq_in))
        => /\ \A c \in MentionedCompanies(pq_in) :
                  Contains(Lower(pq_out.enhanced_query), c)
           /\ pq_out.query_type =
                  IF MatchesTechnical(pq_in) THEN "technical_expertise"
                  ELSE IF MatchesFollowup(pq_in) THEN "followup_question"
                  ELSE "career_history"

\* C3 witness: a query naming a company in capitals, with no timeline,
\* follow-up or technical pattern, has been classified career_history by the
\* company branch, which appended the lower-case company name.
C3_Witness ==
    /\ PQApplied
    /\ MatchesCompany(pq_in) /\ ~AnyIn(company_names, pq_in)
    /\ ~MatchesTimeline(pq_in) /\ ~MatchesFollowup(pq_in) /\ ~MatchesTechnical(pq_in)
    /\ pq_out.query_type = "career_history"
    /\ pq_out.enhanced_query =
           pq_in \o " entergy work experience job responsibilities"


(***************************************************************************)
(* Properties of format_document_with_metadata.                            *)
(***************************************************************************)
StartsWith(s, p) == Len(s) >= Len(p) /\ SubSeq(s, 1, Len(p)) = p
EndsWith(s, p) == Len(s) >= Len(p) /\ SubSeq(s, Len(s) - Len(p) + 1, Len(s)) = p

\* the document names (case-insensitively) a term of the technology vocabulary
MentionsTech(document) ==
    \E i \in 1..Len(tech_terms) : Contains(Lower(document), Lower(tech_terms[i]))

\* C4 as stated: with empty metadata the formatter returns exactly the
\* document text, no line before or after it.
C4_EmptyMetadataIsIdentity ==
    (fmt_out.called /\ fmt_meta = <<>>) => fmt_out.value = fmt_doc

\* C4 amended: with empty metadata the formatter returns exactly the document
\* text when the text names no term of the technology vocabulary; when it
\* names one, the result is a "Relevant technologies detected: ..." line, a
\* blank line, and then the document text, with nothing after it.
C4_EmptyMetadataAddsOnlyDetectedTechs ==
    (fmt_out.called /\ fmt_meta = <<>>)
        => IF MentionsTech(fmt_doc)
           THEN /\ StartsWith(fmt_out.value, "Relevant technologies detected: ")
                /\ EndsWith(fmt_out.value, "\n\n" \o fmt_doc)
                /\ ~Contains(SubSeq(fmt_out.value, 1,
                                    Len(fmt_out.value) - Len(fmt_doc) - 2), "\n")
           ELSE fmt_out.value = fmt_doc

\* C4 witness: a non-empty document naming no technology has been formatted
\* with empty metadata and came back unchanged.
C4_Witness ==
    /\ fmt_out.called /\ fmt_meta = <<>>
    /\ fmt_doc # "" /\ ~MentionsTech(fmt_doc)
    /\ fmt_out.value = fmt_doc

(***************************************************************************)
(* Properties of get_relevant_context.                                     *)
(***************************************************************************)
Done == pc = "done"

\* the call got results from the store and processed them
Processed == Done /\ failure = "none" /\ calls # <<>> /\ calls[Len(calls)] = "query"

\* the similarity of hit i: 1 - distance, and 0 when no distance was reported
Similarity(i) == IF i <= Len(dists) THEN 100 - dists[i] ELSE 0

Hits == 1..Len(docs)

\* the hits whose similarity reaches t
Reaching(t) == { i \in Hits : Similarity(i) >= t }

\* the intent minimum of the claims, in hundredths
ClaimedMinimum(qt) ==
    CASE qt = "technical_expertise" -> 25
      [] qt \in {"basic_info", "career_history"} -> 20
      [] qt \in {"general", "followup_question"} -> 15

\* the k floor of the claims
ClaimedFloor(qt) ==
    CASE qt = "basic_info" -> 7
      [] qt = "technical_expertise" -> 5
      [] qt = "career_history" -> 6
      [] qt = "followup_question" -> 8
      [] qt = "general" -> 4

\* entry j of a (formatted_doc, score) list is hit i
IsHit(entry, i) == entry[2] = Similarity(i) /\ Contains(entry[1], docs[i])

\* hit i is in the list
InList(list, i) == \E j \in 1..Len(list) : IsHit(list[j], i)

\* the result is a context built from documents, not a sentinel
IsContext == result.kind = "return" /\ result.value \notin Sentinels

\* C1 as stated: whatever the collaborators do, the call ends by returning a
\* string, never by raising.
C1_AlwaysReturnsString == Done => result.kind = "return"

\* C1 amended: the call ends by returning a string or by raising
\* HTTPException(500), nothing else.  It returns a string (a sentinel on the
\* failure paths) when the collection cannot be obtained or the store query
\* fails; it raises HTTPException(500) exactly when the Chroma client cannot
\* be initialised or the embedding provider raises or returns an empty vector.
C1_ReturnsStringOrRaisesHTTP500 ==
    Done => /\ result.kind \in {"return", "raise"}
            /\ result.kind = "raise"
                  <=> failure \in {"client", "embedding_raised", "embedding_empty"}
            /\ failure \in {"collection", "dimension", "query"}
                  => result.kind = "return" /\ result.value \in Sentinels

\* C1 witness: the embedding provider returned an empty vector and the call
\* ended by raising HTTPException(500).
C1_Witness ==
    /\ Done /\ failure = "embedding_empty"
    /\ result = RaisedHTTP500("Error retrieving context: Failed to generate query embeddings")

\* C5: when no hit reaches the intent minimum the same candidates are
\* re-filtered at similarity >= 0.10; when none reaches 0.10 either, the call
\* returns "No sufficiently relevant context found." and builds no context.
C5_FallbackFloor ==
    (Processed /\ docs # <<>> /\ Reaching(ClaimedMinimum(query_type)) = {})
        => /\ used_fallback
           /\ Len(fallback_results) = Cardinality(Reaching(10))
           /\ \A i \in Hits : Similarity(i) >= 10 <=> InList(fallback_results, i)
           /\ Reaching(10) = {}
                 => result = Returned(NotSufficientlyRelevant) /\ top_results = <<>>
           /\ Reaching(10) # {} => IsContext /\ top_results # <<>>

\* C5 witness: two hits, both below 0.10, ended in the sentinel.
C5_Witness ==
    /\ Processed /\ Len(docs) >= 2 /\ Len(dists) = Len(docs)
    /\ Reaching(10) = {}
    /\ used_fallback
    /\ result = Returned(NotSufficientlyRelevant)

\* C6: the first pass keeps exactly the hits whose similarity is >= the
\* minimum of the query's intent: a hit at the minimum is kept, one below it
\* is dropped.
C6_PrimaryFilterAtIntentMinimum ==
    (Processed /\ docs # <<>>)
        => /\ Len(filtered_results) = Cardinality(Reaching(ClaimedMinimum(query_type)))
           /\ \A i \in Hits :
                 Similarity(i) >= ClaimedMinimum(query_type) <=> InList(filtered_results, i)

\* C6 witness: a technical query with one hit exactly at 0.25, kept, and one
\* hit at 0.20, dropped.
C6_Witness ==
    /\ Processed /\ query_type = "technical_expertise"
    /\ \E i, j \in Hits :
          /\ Similarity(i) = 25 /\ InList(filtered_results, i)
          /\ Similarity(j) = 20 /\ ~InList(filtered_results, j)

\* the hits that survived filtering: those of the pass the context comes from
Survivors ==
    IF used_fallback THEN Reaching(10) ELSE Reaching(ClaimedMinimum(query_type))

\* C7: the documents of a returned context are in non-increasing order of
\* similarity and at most adjustedK; when more than adjustedK hits survive
\* filtering, exactly the adjustedK highest-scoring ones are kept.
C7_RankedAndTruncated ==
    (Processed /\ IsContext)
        => /\ Len(top_results) <= k
           /\ \A j \in 1..(Len(top_results) - 1) : top_results[j][2] >= top_results[j + 1][2]
           /\ result.value = Join(Separator, [j \in 1..Len(top_results) |-> top_results[j][1]])
           /\ \A i \in Hits : InList(top_results, i) => i \in Survivors
           /\ Len(top_results) = Min(k, Cardinality(Survivors))
           /\ \A i \in Survivors :
                 ~InList(top_results, i)
                    => \A j \in 1..Len(top_results) : top_results[j][2] >= Similarity(i)

\* C7 witness: more hits survived than adjustedK, the store reported a kept
\* hit after a lower-scoring one, and the context holds adjustedK documents.
C7_Witness ==
    /\ Processed /\ IsContext
    /\ Cardinality(Survivors) > k
    /\ Len(top_results) = k
    /\ \E i, j \in Hits : i < j /\ Similarity(i) < Similarity(j)
                           /\ ~InList(top_results, i) /\ InList(top_results, j)

\* C8: adjustedK = max(desiredK, floor of the intent) with floors basic_info
\* 7, technical_expertise 5, career_history 6, followup_question 8, general
\* 4, and the store is asked for min(2 * adjustedK, 12) neighbours.
C8_AdjustedKAndInitialK ==
    /\ pc # "idle" => k = Max(desired_k, ClaimedFloor(query_type))
    /\ (calls # <<>> /\ calls[Len(calls)] = "query")
          => initial_k = Min(2 * Max(desired_k, ClaimedFloor(query_type)), 12)

\* C8 witness: a technical query with desiredK below the floor was raised to
\* 5 and asked the store for 10 neighbours.
C8_Witness ==
    /\ Done /\ query_type = "technical_expertise"
    /\ desired_k < 5 /\ k = 5 /\ initial_k = 10

\* the hits whose metadata item is not a mapping
Malformed == { i \in Hits : i <= Len(metas) /\ ~metas[i].is_dict }

\* C9 as stated: a hit whose metadata is not a well-formed mapping is
\* skipped: it does not appear in the returned context.
C9_MalformedHitSkipped ==
    (Processed /\ IsContext)
        => \A i \in Malformed : ~InList(top_results, i) /\ ~Contains(result.value, docs[i])

\* C9 amended: a hit whose metadata is not a mapping is treated as a hit
\* with empty metadata: it passes the filters like any other hit and, when
\* kept, contributes its text formatted with no metadata; the other hits are
\* still filtered, ranked and formatted, and the call is not aborted.
C9_MalformedHitKeptWithEmptyMetadata ==
    (Processed /\ docs # <<>>)
        => /\ result.kind = "return" /\ result.value # RetrievalError
           /\ \A i \in Malformed :
                 Similarity(i) >= ClaimedMinimum(query_type)
                    => \E j \in 1..Len(filtered_results) :
                          filtered_results[j] =
                             << format_document_with_metadata(docs[i], <<>>), Similarity(i) >>
           /\ \A i \in Hits \ Malformed :
                 Similarity(i) >= ClaimedMinimum(query_type) => InList(filtered_results, i)

\* C9 witness: a hit without a metadata mapping is in the returned context
\* as its bare text, next to a hit that has one.
C9_Witness ==
    /\ Processed /\ IsContext
    /\ \E i \in Malformed, j \in Hits \ Malformed :
          /\ InList(top_results, i) /\ InList(top_results, j)
          /\ \E n \in 1..Len(top_results) : top_results[n][1] = docs[i]

\* the failures C10 names
NamedFailures == {"client", "collection", "embedding_raised", "embedding_empty", "dimension"}

\* C10 as stated: embedding failure, vector-store unavailability and a
\* dimension mismatch each end the call with a no-context sentinel string,
\* one per failure kind and none of them an empty-result sentinel.
C10_FailuresEndInDistinctSentinels ==
    (Done /\ failure \in NamedFailures)
        => /\ result.kind = "return"
           /\ result.value \in Sentinels \ {NoContextFound, NotSufficientlyRelevant}
           /\ failure = "dimension" <=> result.value = DimensionMismatch
           /\ failure \in {"client", "collection"} <=> result.value = CollectionNotAvailable

\* C10 amended: failure to obtain the collection ends the call with the
\* sentinel "... collection not available." and a dimension mismatch with
\* "... embedding dimension mismatch."; embedding failure and failure to
\* initialise the Chroma client end it with HTTPException(500) raised, not
\* with a sentinel.  The two sentinels differ from each other, from the
\* generic retrieval-error sentinel and from the sentinels of a call in which
\* nothing failed.
C10_FailureOutcomes ==
    Done => /\ failure = "collection" <=> result = Returned(CollectionNotAvailable)
            /\ failure = "dimension" <=> result = Returned(DimensionMismatch)
            /\ failure \in {"client", "embedding_raised", "embedding_empty"}
                  <=> result.kind = "raise"
            /\ (failure = "none" /\ result.value \in Sentinels)
                  => result.value \in {NoContextFound, NotSufficientlyRelevant}

\* C10 witness: the query vector had the wrong length and the call returned
\* the dimension-mismatch sentinel.
C10_Witness ==
    /\ Done /\ failure = "dimension" /\ query_embedding # CollectionDim
    /\ result = Returned(DimensionMismatch)

\* how often a collaborator was called in this call
Count(name) == Cardinality({ i \in 1..Len(calls) : calls[i] = name })

LastCall == IF calls = <<>> THEN "none" ELSE calls[Len(calls)]

\* C11 as stated: the embedding provider and the nearest-neighbour query are
\* each attempted at most once in a call, and after either attempt fails the
\* call ends, without a further attempt, with a no-context sentinel.
C11_NoRetryThenSentinel ==
    /\ Count("get_embeddings") <= 1
    /\ Count("query") <= 1
    /\ failure \in {"embedding_raised", "embedding_empty", "dimension", "query"}
          => /\ Done
             /\ result.kind = "return" /\ result.value \in Sentinels

\* C11 amended: the embedding provider and the nearest-neighbour query are
\* each attempted at most once in a call and nothing is attempted after a
\* failed attempt; a failed query ends the call with a no-context sentinel,
\* a failed embedding ends it with HTTPException(500) raised to the caller.
C11_NoRetry ==
    /\ Count("get_embeddings") <= 1
    /\ Count("query") <= 1
    /\ failure \in {"embedding_raised", "embedding_empty"}
          => Done /\ LastCall = "get_embeddings" /\ result.kind = "raise"
    /\ failure \in {"dimension", "query"}
          => /\ Done /\ LastCall = "query"
             /\ result \in {Returned(DimensionMismatch), Returned(RetrievalError)}

\* C11 witness: the one query of the call failed after the one embedding
\* request, and the call ended with the retrieval-error sentinel.
C11_Witness ==
    /\ Done /\ failure = "query"
    /\ Count("get_embeddings") = 1 /\ Count("query") = 1
    /\ result = Returned(RetrievalError)

(***************************************************************************)
(* Properties of preprocess_query: the enhanced query and the evaluation   *)
(* order.                                                                  *)
(***************************************************************************)
TimelineTerms == " job chronology work history dates"

\* the canned suffixes of an intent; the company suffix names the companies
\* the query mentions
SuffixesOf(intent, q) ==
    CASE intent = "general" -> { "" }
      [] intent = "basic_info" ->
            { " professional summary background profile overview" }
      [] intent = "technical_expertise" ->
            { " skills technologies expertise proficiency qualifications technical" }
      [] intent = "followup_question" ->
            { " work experience role position responsibilities companies Enchanted Rock Entergy u-blox Occidental Petroleum Clutch Sports career history" }
      [] intent = "career_history" ->
            { TimelineTerms,
              " work history employment timeline job chronology",
              " " \o Join(" ", SelectIn(company_names, Lower(q)))
                  \o " work experience job responsibilities" }

\* C12 as stated: the enhanced query is the raw query unchanged followed by
\* at most one canned suffix, that of the returned intent; nothing is placed
\* before the raw query; for general it is the raw query.
C12_RawQueryThenOneSuffix ==
    PQApplied
        => \E suffix \in SuffixesOf(pq_out.query_type, pq_in) :
              pq_out.enhanced_query = pq_in \o suffix

\* C12 amended: the enhanced query is the raw query unchanged followed by
\* exactly one canned suffix of the returned intent (none for general), two
\* enhancements never combined, except when the intent is career_history by
\* a timeline pattern: then the word "timeline " is also placed before the
\* raw query.
C12_OneEnhancement ==
    PQApplied
        => IF pq_out.query_type = "career_history" /\ MatchesTimeline(pq_in)
           THEN pq_out.enhanced_query = "timeline " \o pq_in \o TimelineTerms
           ELSE \E suffix \in SuffixesOf(pq_out.query_type, pq_in) \ { TimelineTerms } :
                   pq_out.enhanced_query = pq_in \o suffix

\* C12 witness: a query naming a company and holding a follow-up phrase has
\* got the follow-up suffix alone, straight after the raw query.
C12_Witness ==
    /\ PQApplied
    /\ MatchesCompany(pq_in) /\ MatchesFollowup(pq_in) /\ ~MatchesTechnical(pq_in)
    /\ pq_out.query_type = "followup_question"
    /\ \E suffix \in SuffixesOf("followup_question", pq_in) :
          pq_out.enhanced_query = pq_in \o suffix

\* the categories in evaluation order with the intent each one sets
CategoryIntent ==
    << "career_history", "career_history", "career_history",
       "followup_question", "technical_expertise" >>

MatchesCategory(i, q) ==
    CASE i = 1 -> MatchesTimeline(q)
      [] i = 2 -> MatchesCompany(q)
      [] i = 3 -> MatchesCareer(q)
      [] i = 4 -> MatchesFollowup(q)
      [] i = 5 -> MatchesTechnical(q)

\* the intent after categories i.. were evaluated in order, each matching
\* one overriding the intent set before
RECURSIVE EvaluatedFrom(_, _, _)
EvaluatedFrom(i, q, intent) ==
    IF i > Len(CategoryIntent) THEN intent
    ELSE EvaluatedFrom(i + 1, q, IF MatchesCategory(i, q) THEN CategoryIntent[i]
                                                        ELSE intent)

\* C13: exactly one intent is returned, the one left by evaluating timeline,
\* company name, career keywords, follow-up phrases and technical keywords in
\* that order, a later match overriding an earlier one; basic_info is
\* assigned only when none of the five matched.
C13_LaterCategoryOverrides ==
    PQApplied
        => /\ pq_out.query_type \in Intents
           /\ LET set == EvaluatedFrom(1, pq_in, "general")
              IN  pq_out.query_type =
                     IF set = "general" /\ MatchesBasicInfo(pq_in) THEN "basic_info"
                     ELSE set
           /\ pq_out.query_type = "basic_info"
                 => \A i \in 1..Len(CategoryIntent) : ~MatchesCategory(i, pq_in)

\* C13 witness: a query with a career keyword, a follow-up phrase and no
\* technical keyword is a followup_question.
C13_Witness ==
    /\ PQApplied
    /\ MatchesCareer(pq_in) /\ MatchesFollowup(pq_in) /\ ~MatchesTechnical(pq_in)
    /\ pq_out.query_type = "followup_question"

(***************************************************************************)
(* Properties of the query handler's error log.                            *)
(***************************************************************************)
\* the entries of the error log that report the dimension mismatch
MismatchEntries ==
    { error_log[i] : i \in { j \in 1..Len(error_log) :
          StartsWith(error_log[j], "Embedding dimension mismatch detected") } }

\* the store's message, as logged, states the collection's vector length
\* as "dimensionality N"
StoreStatesDimensionality ==
    \E i \in 1..Len(error_log) :
        /\ StartsWith(error_log[i], "Error querying collection: ")
        /\ Contains(error_log[i], "dimensionality " \o DimText(CollectionDim))

\* C14 as stated: a query failing with a dimension mismatch ends in the
\* dimension-mismatch sentinel, and the error log entry records both the
\* query vector's length and the collection's vector length.
C14_MismatchLogsBothLengths ==
    (Done /\ failure = "dimension")
        => /\ result = Returned(DimensionMismatch)
           /\ \E e \in MismatchEntries :
                 /\ Contains(e, DimText(query_embedding) \o "-dimensional")
                 /\ Contains(e, DimText(CollectionDim) \o "-dimensional")

\* C14 amended: a query failing with a dimension mismatch ends in the
\* dimension-mismatch sentinel, and the error log entry records the query
\* vector's length, and the collection's vector length when the store's
\* message states it as "dimensionality N"; otherwise the entry gives the
\* collection's length as "unknown".
C14_MismatchLogsQueryLength ==
    (Done /\ failure = "dimension")
        => /\ result = Returned(DimensionMismatch)
           /\ MismatchEntries # {}
           /\ \A e \in MismatchEntries :
                 /\ Contains(e, "Query uses " \o DimText(query_embedding) \o "-dimensional")
                 /\ IF StoreStatesDimensionality
                    THEN Contains(e, "collection has " \o DimText(CollectionDim)
                                         \o "-dimensional")
                    ELSE Contains(e, "collection has unknown-dimensional")

\* C14 witness: a 3072-long query vector met the 1536-long collection; the
\* call returned the mismatch sentinel and logged both lengths.
C14_Witness ==
    /\ Done /\ failure = "dimension"
    /\ result = Returned(DimensionMismatch)
    /\ "Embedding dimension mismatch detected: Query uses 3072-dimensional vectors, but collection has 1536-dimensional vectors."
          \in MismatchEntries

(***************************************************************************)
(* Properties of the chat chain's use of retrieval.                        *)
(***************************************************************************)
\* C15: get_context returns a string for every outcome of
\* get_relevant_context, "No relevant context found." for an exception, so
\* call_model always builds the prompt with a context value and invokes the
\* model.
C15_ContextIsAlwaysAString ==
    /\ pc \in {"build_prompt", "model_done"}
          => /\ result.kind = "return" => context = result.value
             /\ result.kind = "raise" => context = NoContextFound
    /\ pc = "model_done"
          => /\ prompt.built /\ prompt.context = context
             /\ response.kind # "none"

\* C15 witness: get_relevant_context raised HTTPException(500), get_context
\* returned its sentinel, the prompt was built with it and the model
\* answered.
C15_Witness ==
    /\ pc = "model_done"
    /\ result.kind = "raise"
    /\ context = NoContextFound
    /\ prompt.built /\ prompt.context = NoContextFound
    /\ response.kind = "return"

(***************************************************************************)
(* Properties of concurrent calls.                                         *)
(***************************************************************************)
\* what get_relevant_context(q) returns when run alone and its collaborators
\* answer a
Alone(q, a) ==
    LET pre == preprocess_query(q)
    IN  IF a.client = "failed" THEN RaisedHTTP500(ClientError)
        ELSE IF a.collection = "failed" THEN Returned(CollectionNotAvailable)
        ELSE IF a.embedding = "empty"
        THEN RaisedHTTP500("Error retrieving context: Failed to generate query embeddings")
        ELSE IF a.embedding = "raised"
        THEN RaisedHTTP500("Error retrieving context: Connection error.")
        ELSE IF a.query = "raised" THEN QueryErrorResult(a.error_msg)
        ELSE ProcessedResult(a.response, pre.query_type, AdjustK(pre.query_type, 5))

\* C16: under any interleaving of concurrent calls over an unchanged index,
\* each call returns the result it would return when run alone: no call
\* writes state another call reads.
C16_CallsDoNotInterfere ==
    \A t \in Tasks :
        /\ task[t].pc = "done" => task[t].result = Alone(task[t].query, task[t].answers)
        /\ task[t].pc \in {"get_client", "get_collection", "embed", "query"}
              => /\ Locals(t).query_type = preprocess_query(task[t].query).query_type
                 /\ Locals(t).query_embedding = task[t].answers.dim

\* C16 witness: two calls of different query types got the same two hits
\* from the store, interleaved, and returned different contexts.
C16_Witness ==
    /\ \A t \in Tasks : task[t].pc = "done" /\ task[t].answers.query = "results"
    /\ task[1].query # task[2].query
    /\ task[1].answers.response = task[2].answers.response
    /\ task[1].result # task[2].result
    /\ task[1].result.value \notin Sentinels /\ task[2].result.value \notin Sentinels

(***************************************************************************)
(* Properties of the search width.                                         *)
(***************************************************************************)
\* C17: for every intent and every desired k, the number of neighbours
\* requested from the store (initial_k) is at least the number of results
\* kept (the adjusted k).
C17_SearchAtLeastAsWide ==
    (calls # <<>> /\ LastCall = "query") => initial_k >= k

(***************************************************************************)
(* Properties relating scores to the distances the store reported.         *)
(***************************************************************************)
\* the hit indices in sorted, and i, by distance ascending; among equal
\* distances in index order
RECURSIVE InsertByDistance(_, _, _)
InsertByDistance(sorted, i, ds) ==
    IF sorted = <<>> THEN << i >>
    ELSE IF ds[Head(sorted)] <= ds[i]
         THEN << Head(sorted) >> \o InsertByDistance(Tail(sorted), i, ds)
         ELSE << i >> \o sorted

RECURSIVE AscendingByDistance(_, _)
AscendingByDistance(ds, n) ==
    IF n = 0 THEN <<>>
    ELSE InsertByDistance(AscendingByDistance(ds, n - 1), n, ds)

\* the indices of ixs whose hit has 1 - distance >= threshold
RECURSIVE WithinDistance(_, _, _)
WithinDistance(ixs, ds, threshold) ==
    IF ixs = <<>> THEN <<>>
    ELSE (IF 100 - ds[Head(ixs)] >= threshold THEN << Head(ixs) >> ELSE <<>>)
             \o WithinDistance(Tail(ixs), ds, threshold)

\* the hits with 1 - distance >= threshold ordered by distance ascending,
\* each with its formatted text and 1 - distance
HitsByDistance(ds_docs, ds, ms, threshold) ==
    LET ixs == WithinDistance(AscendingByDistance(ds, Len(ds)), ds, threshold)
    IN  [p \in 1..Len(ixs) |->
            << format_document_with_metadata(ds_docs[ixs[p]], MetaOf(ms, ixs[p])),
               100 - ds[ixs[p]] >>]

\* C18: for every hit the store reported a distance for, the score used for
\* thresholding and ranking is 1 minus that distance, and the hits ordered by
\* score descending are the hits ordered by distance ascending.
C18_ScoreIsOneMinusDistance ==
    (pc = "done" /\ calls # <<>> /\ LastCall = "query"
        /\ docs # <<>> /\ Len(dists) = Len(docs))
    => /\ filtered_results = HitsByDistance(docs, dists, metas, MinSimilarity(query_type))
       /\ used_fallback
             => fallback_results = HitsByDistance(docs, dists, metas, floor_threshold)
       /\ top_results # <<>> => top_results[1][2] = 100 - dists[AscendingByDistance(dists, Len(dists))[1]]

\* C18 witness: the store reported the hits out of distance order, two of them
\* passed the threshold and one did not, and the nearer hit is ranked first.
C18_Witness ==
    /\ pc = "done" /\ Len(docs) >= 3 /\ Len(dists) = Len(docs)
    /\ dists[1] > dists[2]
    /\ Len(filtered_results) >= 2
    /\ filtered_results[1][2] = 100 - dists[2]
    /\ filtered_results[2][2] = 100 - dists[1]
    /\ \E i \in 1..Len(dists) : 100 - dists[i] < MinSimilarity(query_type)

(***************************************************************************)
(* Properties of the formatted block.                                      *)
(***************************************************************************)
\* s.split(sep), for the part starting at position start
RECURSIVE SplitFrom(_, _, _)
SplitFrom(s, sep, start) ==
    LET found == { i \in start..(Len(s) - Len(sep) + 1) :
                      SubSeq(s, i, i + Len(sep) - 1) = sep }
    IN  IF found = {}
        THEN << IF start > Len(s) THEN "" ELSE SubSeq(s, start, Len(s)) >>
        ELSE LET i == CHOOSE i \in found : \A j \in found : i <= j
             IN  << IF start = i THEN "" ELSE SubSeq(s, start, i - 1) >>
                     \o SplitFrom(s, sep, i + Len(sep))

Split(s, sep) == SplitFrom(s, sep, 1)

\* the parts of the formatted block: the texts between blank lines
BlockParts == Split(fmt_out.value, "\n\n")

\* which part of the fixed order a text before the document is; 0 for none
HeaderRank(part) ==
    IF StartsWith(part, "From ") THEN 1
    ELSE IF StartsWith(part, "Technologies used: ") THEN 3
    ELSE IF \/ StartsWith(part, "Position: ")
            \/ StartsWith(part, "Company: ")
            \/ StartsWith(part, "Timeline: ") THEN 4
    ELSE IF StartsWith(part, "Relevant technologies detected: ") THEN 5
    ELSE IF Contains(part, " at ") THEN 2
    ELSE 0

\* the data of part number rank is present in the metadata and the document
DataPresent(rank) ==
    LET job_title == Get(fmt_meta, "job_title", "")
        company == Get(fmt_meta, "company", "")
        date_range == Get(fmt_meta, "date_range", "")
    IN  CASE rank = 1 -> Get(fmt_meta, "source", "") # ""
          [] rank = 2 -> job_title # "" /\ company # ""
          [] rank = 3 -> Get(fmt_meta, "technologies", "") # ""
          [] rank = 4 -> /\ Get(fmt_meta, "section", "") # ""
                         /\ (job_title # "" \/ company # "" \/ date_range # "")
          [] rank = 5 -> Get(fmt_meta, "technologies", "") = "" /\ MentionsTech(fmt_doc)
          [] OTHER -> FALSE

\* text is the "Key: value" line of an item of the metadata
IsMetadataLine(text) ==
    \E i \in 1..Len(fmt_meta) :
        text = Capitalize(fmt_meta[i][1]) \o ": " \o fmt_meta[i][2]

\* C19: the parts of the formatted block are, in this order, the source
\* header, the job line, the technologies line, the Position/Company/Timeline
\* recap, the detected-technologies line, the document text and the
\* remaining-metadata lines; each part is there only when its data is, the
\* document text is there exactly once, and one blank line separates
\* consecutive parts.
C19_PartsInFixedOrder ==
    fmt_out.called
    => LET parts == BlockParts
       IN  /\ fmt_out.value = Join("\n\n", parts)
           /\ \A p \in 1..Len(parts) : ~Contains(parts[p], "\n")
           /\ Cardinality({ p \in 1..Len(parts) : parts[p] = fmt_doc }) = 1
           /\ \E d \in 1..Len(parts) :
                 /\ parts[d] = fmt_doc
                 /\ \A p \in 1..(d - 1) :
                       /\ HeaderRank(parts[p]) \in 1..5
                       /\ DataPresent(HeaderRank(parts[p]))
                       /\ \A q \in (p + 1)..(d - 1) :
                             HeaderRank(parts[p]) < HeaderRank(parts[q])
                 /\ \A p \in (d + 1)..Len(parts) : IsMetadataLine(parts[p])

\* C19 witness: a block of seven parts has been formatted: source header,
\* job line, recap, detected-technologies line, the document text and two
\* remaining-metadata lines.
C19_Witness ==
    /\ fmt_out.called
    /\ Len(BlockParts) = 7
    /\ HeaderRank(BlockParts[1]) = 1
    /\ HeaderRank(BlockParts[2]) = 2
    /\ HeaderRank(BlockParts[3]) = 4
    /\ HeaderRank(BlockParts[4]) = 5
    /\ BlockParts[5] = fmt_doc
    /\ IsMetadataLine(BlockParts[6]) /\ IsMetadataLine(BlockParts[7])

\* the parts of the block after the document text
PartsAfterDocument ==
    LET parts == BlockParts
        d == CHOOSE d \in 1..Len(parts) : parts[d] = fmt_doc
    IN  SubSeq(parts, d + 1, Len(parts))

\* how many of the parts after the document text are the text line
TimesRendered(line) ==
    Cardinality({ p \in 1..Len(PartsAfterDocument) : PartsAfterDocument[p] = line })

\* the "Key: value" line of item i of the metadata
LineOf(i) == Capitalize(fmt_meta[i][1]) \o ": " \o fmt_meta[i][2]

\* C20 as stated: every metadata key other than the six consumed ones is
\* rendered as exactly one "Key: value" line after the document text,
\* whatever its value, and none of the six is rendered there.
C20_EveryOtherKeyRendered ==
    fmt_out.called
    => \A i \in 1..Len(fmt_meta) :
          IF fmt_meta[i][1] \in used_keys
          THEN TimesRendered(LineOf(i)) = 0
          ELSE TimesRendered(LineOf(i)) = 1

\* C20 amended: every other key whose value is not empty is rendered as
\* exactly one "Key: value" line after the document text, in the order of the
\* metadata; a key whose value is empty, and each of the six consumed keys, is
\* not rendered there; nothing else follows the document text.
C20_OtherKeysWithValueRendered ==
    fmt_out.called
    => /\ \A i \in 1..Len(fmt_meta) :
             IF fmt_meta[i][1] \notin used_keys /\ fmt_meta[i][2] # ""
             THEN TimesRendered(LineOf(i)) = 1
             ELSE TimesRendered(LineOf(i)) = 0
       /\ Len(PartsAfterDocument)
             = Cardinality({ i \in 1..Len(fmt_meta) :
                               fmt_meta[i][1] \notin used_keys /\ fmt_meta[i][2] # "" })
       /\ \A i, j \in 1..Len(fmt_meta), p, q \in 1..Len(PartsAfterDocument) :
             (i < j /\ PartsAfterDocument[p] = LineOf(i) /\ PartsAfterDocument[q] = LineOf(j))
                 => p < q

\* C20 witness: metadata with consumed keys and two other keys has been
\* formatted, and the two lines follow the document text in the order of the
\* metadata.
C20_Witness ==
    /\ fmt_out.called
    /\ \E i \in 1..Len(fmt_meta) : fmt_meta[i][1] = "technologies" /\ fmt_meta[i][2] # ""
    /\ PartsAfterDocument = << "Header1: Resume", "Job_location: Houston" >>

(***************************************************************************)
(* Properties of the empty result.                                         *)
(***************************************************************************)
\* C21: when the store returns zero hits the call returns "No relevant
\* context found." at once: neither the threshold pass nor the fallback pass
\* has run, and nothing was formatted.
C21_ZeroHitsReturnAtOnce ==
    (Processed /\ docs = <<>>)
    => /\ result = Returned(NoContextFound)
       /\ ~used_fallback
       /\ filtered_results = <<>> /\ fallback_results = <<>> /\ top_results = <<>>

\* C21 witness: a call whose query found no hit has ended with the sentinel.
C21_Witness ==
    /\ Processed /\ docs = <<>>
    /\ initial_k > 0
    /\ result = Returned(NoContextFound)

C23_BlankQueryIsGeneral ==
    (IsWhitespace(pq_in) /\ pq_out # NotClassified)
    => /\ pq_out.query_type = "general"
       /\ pq_out.enhanced_query = pq_in

\* C23 witness: a query of several whitespace characters has been classified
\* general and returned as it was.
C23_Witness ==
    /\ Len(pq_in) >= 2 /\ IsWhitespace(pq_in)
    /\ pq_out = Classified(pq_in, "general")

(***************************************************************************)
(* Properties of chat_invoke and the stored conversations.                 *)
(***************************************************************************)
\* the query of request r and the response to it, as stored
Exchange(r) == << Human(requests[r].query), ResponseTo(requests[r].query) >>

\* every thread but the one of request r holds after the call what it held
\* before
OtherThreadsUnchanged(r) ==
    \A u \in ThreadIds \ {requests[r].thread_id} :
        requests[r].after[u] = requests[r].before[u]

\* C24 as stated: after a chat_invoke that returned, the messages stored for
\* its thread are those stored before the call followed by the query and the
\* response, and every other thread is unchanged.
C24_HistoryExtended ==
    \A r \in Requests :
        requests[r].pc = "returned"
        => /\ requests[r].after[requests[r].thread_id]
                 = requests[r].before[requests[r].thread_id] \o Exchange(r)
           /\ OtherThreadsUnchanged(r)

\* C24 amended: after a chat_invoke that returned, every other thread is
\* unchanged; the messages stored for its thread are those stored before the
\* call followed by the query and the response when get_state gave the
\* thread's state and the first graph invocation succeeded, and the query and
\* the response alone when get_state raised or the first invocation raised.
C24_HistoryExtendedUnlessRestarted ==
    \A r \in Requests :
        requests[r].pc = "returned"
        => LET t == requests[r].thread_id
               read == requests[r].state_found \/ requests[r].before[t] = <<>>
           IN  /\ OtherThreadsUnchanged(r)
               /\ IF read /\ ~requests[r].first_raised
                  THEN requests[r].after[t] = requests[r].before[t] \o Exchange(r)
                  ELSE requests[r].after[t] = Exchange(r)

\* C24 witness: a request on a thread with a stored conversation returned
\* after one invocation, the other thread holding a conversation too.
C24_Witness ==
    \E r \in Requests :
        /\ requests[r].pc = "returned"
        /\ requests[r].state_found /\ ~requests[r].first_raised
        /\ \A u \in ThreadIds : requests[r].before[u] # <<>>
        /\ Len(requests[r].after[requests[r].thread_id]) = 4

\* the messages stored for thread t
Stored(t) == { memory[t][i] : i \in 1..Len(memory[t]) }

\* C25: when two chat_invoke calls on the same thread overlap and both have
\* completed, the history stored for the thread holds both queries and both
\* responses.
C25_NoLostUpdate ==
    (/\ \A r \in Requests : /\ requests[r].pc = "returned"
                            /\ ~requests[r].first_raised
                            /\ Len(requests[r].invocations) = 1
                            /\ requests[r].state_found
                               \/ requests[r].before[requests[r].thread_id] = <<>>
     /\ requests[1].thread_id = requests[2].thread_id)
    => \A r \in Requests :
          /\ Human(requests[r].query) \in Stored(requests[r].thread_id)
          /\ ResponseTo(requests[r].query) \in Stored(requests[r].thread_id)

\* C26: when the first graph invocation raises, the graph is invoked exactly
\* once more, with the new query alone; if that invocation succeeds the
\* thread holds the query and the response and nothing else, and if it
\* raises, chat_endpoint answers with HTTP 500.  No request invokes the graph
\* a third time, or a second time without the first having raised.
C26_FallbackStartsAnew ==
    \A r \in Requests :
        LET req == requests[r]
        IN  /\ Len(req.invocations) <= 2
            /\ Len(req.invocations) = 2 => req.first_raised
            /\ req.pc = "raised" => req.first_raised
            /\ (req.first_raised /\ req.pc \in {"fallback_model", "returned", "raised"})
                  => /\ Len(req.invocations) = 2
                     /\ req.invocations[2] = << Human(req.query) >>
            /\ (req.first_raised /\ req.pc = "returned")
                  => /\ req.after[req.thread_id] = Exchange(r)
                     /\ req.answer.kind = "return"
            /\ (req.first_raised /\ req.pc = "raised")
                  => req.answer = RaisedHTTP500("Rate limit reached")

\* C26 witness: on a thread with a stored conversation the first invocation
\* raised and the second succeeded, leaving the query and the response.
C26_Witness ==
    \E r \in Requests :
        /\ requests[r].first_raised /\ requests[r].pc = "returned"
        /\ requests[r].state_found
        /\ Len(requests[r].invocations[1]) = 3
        /\ memory[requests[r].thread_id] = Exchange(r)

(***************************************************************************)
(* Properties of the queries of the chat path.                             *)
(***************************************************************************)
\* the intents a query of the chat path with a summary can get
ChatIntents == { "career_history", "followup_question", "technical_expertise" }

\* C27: a query handled by call_model with a non-empty conversation summary,
\* as the first query of a thread is, reaches preprocess_query with the
\* suffix " (Previous conversation about: ...)" and gets the intent
\* career_history, followup_question or technical_expertise, never general or
\* basic_info.
C27_ChatQueriesCarryTheSummary ==
    (pc # "idle" /\ messages # <<>>)
    => /\ Len(messages) = 1 => conversation_summary = "no previous topics"
       /\ conversation_summary # ""
             => /\ query = messages[Len(messages)].text
                             \o " (Previous conversation about: "
                             \o conversation_summary \o ")"
                /\ query_type \in ChatIntents

\* C27 witness: the first query of a thread, a basic-information question on
\* its own, was classified career_history with the summary suffix.
C27_Witness ==
    /\ pc # "idle"
    /\ messages = << Human("who are you") >>
    /\ preprocess_query("who are you").query_type = "basic_info"
    /\ query = "who are you (Previous conversation about: no previous topics)"
    /\ query_type = "career_history"

(***************************************************************************)
(* Properties of the pattern lists.                                        *)
(***************************************************************************)
\* C28: the query that is exactly an entry of a category's pattern list gets
\* that category's intent: career_history for the timeline, company-name and
\* career lists, followup_question for the follow-up list,
\* technical_expertise for the technical list, basic_info for the basic-info
\* list.
C28_ListedPatternGetsItsIntent ==
    pq_out # NotClassified
    => /\ pq_in \in Entries(timeline_patterns) \cup Entries(company_names)
                       \cup Entries(career_history_patterns)
             => pq_out.query_type = "career_history"
       /\ pq_in \in Entries(followup_patterns)
             => pq_out.query_type = "followup_question"
       /\ pq_in \in Entries(technical_patterns)
             => pq_out.query_type = "technical_expertise"
       /\ pq_in \in Entries(basic_info_patterns)
             => pq_out.query_type = "basic_info"

(***************************************************************************)
(* Properties of the documents of a returned context.                      *)
(***************************************************************************)
\* the text of hit i is in the returned string
InContext(i) == Contains(result.value, docs[i])

\* C29: every document of a returned context has similarity >= 0.10; one
\* whose similarity is below the intent minimum is there only when no hit of
\* the call reached that minimum; a hit the store reported no distance for is
\* scored 0 and is never there.
C29_NoDocumentBelowTheFloor ==
    (Processed /\ docs # <<>>)
    => /\ \A j \in 1..Len(top_results) : top_results[j][2] >= 10
       /\ \A i \in Hits :
             (IsContext /\ InContext(i))
             => /\ i <= Len(dists)
                /\ 100 - dists[i] >= 10
                /\ 100 - dists[i] < ClaimedMinimum(query_type)
                      => Reaching(ClaimedMinimum(query_type)) = {}
       /\ \A i \in Hits :
             i > Len(dists)
             => /\ ~InList(filtered_results, i) /\ ~InList(fallback_results, i)
                /\ ~InList(top_results, i)
                /\ IsContext => ~InContext(i)
       /\ dists = <<>> => result = Returned(NotSufficientlyRelevant)

\* C29 witness: a context of one document below the intent minimum, no hit
\* having reached the minimum and another hit being below 0.10.
C29_Witness ==
    /\ Processed /\ IsContext /\ used_fallback
    /\ Len(top_results) = 1
    /\ top_results[1][2] < ClaimedMinimum(query_type)
    /\ \E i \in Hits : Similarity(i) < 10 /\ ~InContext(i)

(***************************************************************************)
(* Properties of the order of the steps of a call.                         *)
(***************************************************************************)
\* the collaborators in the order of the claim
StepOrder == << "get_chroma_client", "get_collection", "get_embeddings", "query" >>

\* C30: in every call the steps come in the order classify, Chroma client,
\* collection, embedding, query: the embedding provider is called only after
\* the client and the collection were obtained, and when either of those
\* fails neither an embedding request nor a query is issued.
C30_StepsInOrder ==
    /\ Len(calls) <= Len(StepOrder)
    /\ calls = SubSeq(StepOrder, 1, Min(Len(calls), Len(StepOrder)))
    /\ calls # <<>> => query_type # "none" /\ query_type = preprocess_query(query).query_type
    /\ failure \in {"client", "collection"}
          => Count("get_embeddings") = 0 /\ Count("query") = 0 /\ Done
    /\ Count("get_embeddings") = 1
          => \E i, j, e \in 1..Len(calls) :
                /\ calls[i] = "get_chroma_client" /\ calls[j] = "get_collection"
                /\ calls[e] = "get_embeddings" /\ i < j /\ j < e

\* C30 witness: the collection could not be obtained and the call ended with
\* its sentinel after the client and the collection steps alone.
C30_Witness ==
    /\ Done /\ failure = "collection"
    /\ calls = << "get_chroma_client", "get_collection" >>
    /\ query_type # "none"
    /\ result = Returned(CollectionNotAvailable)
====
